---- MODULE Spec2Model ----
(***************************************************************************)
(* StudyMate: the retrieval-evaluation-correction loop of                  *)
(* StudyMateRAG.query (backend/rag_engine.py) and the Safety Gate          *)
(* StudyMateGuardrails (backend/guardrails.py) that wraps it.              *)
(*                                                                         *)
(* Texts.  A Python str is modelled by the list s.split(" "): a sequence   *)
(* of tokens that are joined by single spaces; an empty token "" stands    *)
(* for an additional whitespace character.  len() counts tokens, so the    *)
(* configured length limits are expressed in tokens.  Regular expressions  *)
(* and substring tests are evaluated token by token over the vocabulary    *)
(* the model draws its texts from.                                         *)
(*                                                                         *)
(* Scores are integers in hundredths (0.8 is 80).                          *)
(***************************************************************************)
EXTENDS Integers, Sequences, FiniteSets, TLC

(***************************************************************************)
(* Configuration (backend/config.py).  The limits are environment          *)
(* settings; the model runs a configuration with small limits.             *)
(***************************************************************************)
TOP_K == 10
MAX_QUERY_LENGTH == 12
MAX_RESPONSE_LENGTH == 6

\* Bound of the model: queries answered by one StudyMateRAG instance.
MaxQueries == 2

\* Bound of the model: calls made directly on one StudyMateGuardrails instance.
MaxGateCalls == 2

\* Bound of the model: rejected inputs given to one StudyMateGuardrails
\* instance when its rejection log is followed.
MaxLogCalls == 11
MaxReplays == 3

\* Bound of the model: requests that call validate_input concurrently.
NumThreads == 2

(***************************************************************************)
(* Text helpers                                                            *)
(***************************************************************************)
RECURSIVE SelectTokens(_)
\* text.split(): the non-empty tokens, in order.
SelectTokens(text) ==
    IF text = << >> THEN << >>
    ELSE IF Head(text) = "" THEN SelectTokens(Tail(text))
         ELSE <<Head(text)>> \o SelectTokens(Tail(text))

Split(text) == SelectTokens(text)

\* not text or not text.strip()
IsBlank(text) == \A i \in 1..Len(text) : text[i] = ""

RECURSIVE DropLeading(_)
DropLeading(text) ==
    IF text = << >> THEN << >>
    ELSE IF Head(text) = "" THEN DropLeading(Tail(text)) ELSE text

RECURSIVE DropTrailing(_)
DropTrailing(text) ==
    IF text = << >> THEN << >>
    ELSE IF text[Len(text)] = "" THEN DropTrailing(SubSeq(text, 1, Len(text) - 1))
         ELSE text

\* str.strip()
Strip(text) == DropTrailing(DropLeading(text))

\* Seeded fault: the slice stops one short of n.
Truncate_OneShort(text, n) == IF Len(text) > n - 1 THEN SubSeq(text, 1, n - 1) ELSE text

\* text[:n]
Truncate(text, n) == IF Len(text) > n THEN SubSeq(text, 1, n) ELSE text

\* f"{a} {b}" (the empty string is the single token "")
SpaceJoin(a, b) ==
    (IF a = << >> THEN <<"">> ELSE a) \o (IF b = << >> THEN <<"">> ELSE b)

\* str.lower() on one token (the vocabulary has one capitalised form of each
\* of these words).
LowerToken(tok) ==
    CASE tok = "Cheat" -> "cheat"
      [] tok = "Password" -> "password"
      [] tok = "Study" -> "study"
      [] OTHER -> tok

Lower(text) == [i \in 1..Len(text) |-> LowerToken(text[i])]

(***************************************************************************)
(* StudyMateGuardrails._init_patterns                                      *)
(***************************************************************************)
\* inappropriate_patterns: the single-word alternatives of \b(...)\b
InappropriateWords ==
    {"sex", "sexual", "porn", "xxx", "nsfw",
     "drug", "drugs", "cocaine", "heroin", "marijuana", "weed",
     "violence", "violent", "kill", "murder", "rape", "assault",
     "hate", "hateful", "racist", "racism", "nazi", "kkk",
     "cheat", "cheating",
     "hack", "hacking", "exploit", "malware", "virus",
     "suicide", "cutting",
     "alcohol", "beer", "wine", "liquor",
     "gambling", "casino", "bet", "lottery",
     "weapon", "gun", "knife", "bomb", "explosive"}

\* inappropriate_patterns: the alternatives of the form a.*b
InappropriatePairs ==
    {<<"exam", "hack">>, <<"test", "hack">>, <<"self", "harm">>, <<"get", "drunk">>}

\* tokens of the vocabulary matched by \b\d{3}[-.]?\d{3}[-.]?\d{4}\b
PhoneTokens == {"555-123-4567"}
\* tokens matched by \b\d{3}[-.]?\d{2}[-.]?\d{4}\b
SsnTokens == {"123-45-6789"}
\* tokens matched by \b[A-Za-z0-9._%+-]+@[A-Za-z0-9.-]+\.[A-Z|a-z]{2,}\b
EmailTokens == {"a@b.com"}
\* tokens that end in a run of 1 to 5 digits after a word boundary (\b\d{1,5})
DigitTokens == {"2", "12", "555-123-4567", "123-45-6789"}
\* tokens that are not made of word characters only (\w+ does not span them)
NonWordTokens == {"", "a@b.com", "555-123-4567", "123-45-6789"}
\* \b(password|login|username|credential)\b, matched case-sensitively
CredentialWords == {"password", "login", "username", "credential"}

educational_keywords ==
    {"study", "learn", "understand", "explain", "chapter", "lesson",
     "homework", "assignment", "concept", "theory", "practice",
     "example", "question", "answer", "review", "summary"}

cheating_indicators ==
    {<<"how", "to", "cheat">>, <<"cheat", "on">>, <<"hack", "exam">>, <<"steal", "answers">>}

suspicious_words == {"party", "game", "movie", "music", "sport", "celebrity"}

\* Substring relations between a token of the vocabulary and a shorter word.
\* <<t, w>> \in SuffixOf: token t ends with w;  PrefixOf: t starts with w;
\* InfixOf: w occurs inside t.
SuffixOf == {<<"escheat", "cheat">>}
PrefixOf == {<<"cheats", "cheat">>, <<"only", "on">>}
InfixOf == {<<"games", "game">>, <<"movies", "movie">>, <<"studying", "study">>,
            <<"answers", "answer">>, <<"escheat", "cheat">>, <<"cheats", "cheat">>}

EndsWith(tok, w) == tok = w \/ <<tok, w>> \in SuffixOf
StartsWith(tok, w) == tok = w \/ <<tok, w>> \in PrefixOf
Contains(tok, w) == tok = w \/ <<tok, w>> \in InfixOf \/ <<tok, w>> \in SuffixOf
                    \/ <<tok, w>> \in PrefixOf

\* re.search(r'\b(w1|w2|...)\b', text)
HasWord(text, words) == \E i \in 1..Len(text) : text[i] \in words

\* re.search(r'\b(a.*b)\b', text)
HasPair(text, pairs) ==
    \E i \in 1..Len(text), j \in 1..Len(text) :
        i < j /\ <<text[i], text[j]>> \in pairs

\* re.search(r'\b\d{1,5}\s\w+\s\w+\b', text)
HasAddress(text) ==
    \E i \in 1..(Len(text) - 2) :
        /\ text[i] \in DigitTokens
        /\ text[i + 1] \notin NonWordTokens
        /\ text[i + 2] # ""

\* indicator in text_lower, for an indicator of several words
HasPhrase(text, phrase) ==
    \E i \in 1..(Len(text) - Len(phrase) + 1) :
        /\ EndsWith(text[i], phrase[1])
        /\ StartsWith(text[i + Len(phrase) - 1], phrase[Len(phrase)])
        /\ \A k \in 2..(Len(phrase) - 1) : text[i + k - 1] = phrase[k]

\* sum(1 for keyword in keywords if keyword in text)
KeywordScore(text, keywords) ==
    Cardinality({w \in keywords : \E i \in 1..Len(text) : Contains(text[i], w)})

(***************************************************************************)
(* StudyMateGuardrails._rule_based_check: (is_safe, category, reason)      *)
(***************************************************************************)
NoCategory == "None"

MatchesInappropriate(text) ==
    HasWord(Lower(text), InappropriateWords) \/ HasPair(Lower(text), InappropriatePairs)

MatchesPersonalInfo(text) ==
    \/ HasWord(text, PhoneTokens)
    \/ HasWord(text, SsnTokens)
    \/ HasWord(text, EmailTokens)
    \/ HasAddress(text)
    \/ HasWord(text, CredentialWords)

MatchesCheating(text) ==
    \E indicator \in cheating_indicators : HasPhrase(Lower(text), indicator)

MatchesOffTopic(text) ==
    LET educational_score == KeywordScore(Lower(text), educational_keywords)
        suspicious_score == KeywordScore(Lower(text), suspicious_words)
    IN  /\ Len(Split(text)) > 10
        /\ educational_score < 2
        /\ suspicious_score > educational_score

\* Seeded fault: the personal-information patterns are tried first.
_rule_based_check_PersonalFirst(text) ==
    IF MatchesPersonalInfo(text)
    THEN [safe |-> FALSE, category |-> "personal_info",
          reason |-> "Contains personal information"]
    ELSE IF MatchesInappropriate(text)
    THEN [safe |-> FALSE, category |-> "inappropriate",
          reason |-> "Contains inappropriate content"]
    ELSE IF MatchesCheating(text)
    THEN [safe |-> FALSE, category |-> "cheating",
          reason |-> "Academic dishonesty attempt detected"]
    ELSE IF MatchesOffTopic(text)
    THEN [safe |-> FALSE, category |-> "off_topic",
          reason |-> "Query appears off-topic for educational assistant"]
    ELSE [safe |-> TRUE, category |-> NoCategory, reason |-> ""]

\* Seeded fault: the personal-information patterns are not tried.
_rule_based_check_NoPersonalInfo(text) ==
    IF MatchesInappropriate(text)
    THEN [safe |-> FALSE, category |-> "inappropriate",
          reason |-> "Contains inappropriate content"]
    ELSE IF MatchesCheating(text)
    THEN [safe |-> FALSE, category |-> "cheating",
          reason |-> "Academic dishonesty attempt detected"]
    ELSE IF MatchesOffTopic(text)
    THEN [safe |-> FALSE, category |-> "off_topic",
          reason |-> "Query appears off-topic for educational assistant"]
    ELSE [safe |-> TRUE, category |-> NoCategory, reason |-> ""]

_rule_based_check(text) ==
    IF MatchesInappropriate(text)
    THEN [safe |-> FALSE, category |-> "inappropriate",
          reason |-> "Contains inappropriate content"]
    ELSE IF MatchesPersonalInfo(text)
    THEN [safe |-> FALSE, category |-> "personal_info",
          reason |-> "Contains personal information"]
    ELSE IF MatchesCheating(text)
    THEN [safe |-> FALSE, category |-> "cheating",
          reason |-> "Academic dishonesty attempt detected"]
    ELSE IF MatchesOffTopic(text)
    THEN [safe |-> FALSE, category |-> "off_topic",
          reason |-> "Query appears off-topic for educational assistant"]
    ELSE [safe |-> TRUE, category |-> NoCategory, reason |-> ""]

(***************************************************************************)
(* Enumerations and records of guardrails.py                               *)
(***************************************************************************)
\* SafetyLevel
SafetyLevels == {"SAFE", "WARNING", "DANGEROUS", "BLOCKED"}

\* ContentCategory: the values ContentCategory(value) accepts
ContentCategoryValues ==
    {"educational", "inappropriate", "harmful", "misleading", "cheating",
     "personal_info", "off_topic"}

\* seeded fault: a rejection made with full confidence has the level DANGEROUS
GuardrailResult_Dangerous(is_safe, safety_level, blocked_category, reason, sanitized_text, confidence_score) ==
    [is_safe |-> is_safe,
     safety_level |-> IF ~is_safe /\ confidence_score = 100 THEN "DANGEROUS"
                      ELSE safety_level,
     blocked_category |-> blocked_category, reason |-> reason,
     sanitized_text |-> sanitized_text, confidence_score |-> confidence_score]

\* GuardrailResult (processing_time, a wall-clock reading, is left out)
GuardrailResult(is_safe, safety_level, blocked_category, reason, sanitized_text, confidence_score) ==
    [is_safe |-> is_safe, safety_level |-> safety_level,
     blocked_category |-> blocked_category, reason |-> reason,
     sanitized_text |-> sanitized_text, confidence_score |-> confidence_score]

\* SafetyMetrics() as constructed: zero counters, empty dict, empty list
SafetyMetrics ==
    [total_queries |-> 0, safe_queries |-> 0, blocked_queries |-> 0,
     warning_queries |-> 0, category_counts |-> << >>, recent_blocks |-> << >>]

\* dict.get(key, default)
Get(d, key, default) == IF key \in DOMAIN d THEN d[key] ELSE default

\* counts[key] = counts.get(key, 0) + 1
CountOne(counts, key) ==
    [k \in (DOMAIN counts) \cup {key} |->
        IF k = key THEN Get(counts, key, 0) + 1 ELSE counts[k]]

\* StudyMateGuardrails._sanitize_text: " ".join(text.split()).strip()
_sanitize_text(text) == Strip(Split(text))

SafeRefusal == <<"I'm sorry, but I can't provide that information. Let's focus on your studies!">>

\* Seeded fault: the response is returned as it is.
_sanitize_response_Echo(response) == response

\* StudyMateGuardrails._sanitize_response
_sanitize_response(response) == SafeRefusal

(***************************************************************************)
(* StudyMateGuardrails._llm_based_check                                    *)
(*                                                                         *)
(* resp is the behaviour of the model call: kind "raise" (invoke raises),  *)
(* "text" (content is not JSON, which includes JSON wrapped in code-fence  *)
(* markers), "nondict" (JSON that is not an object), "fenced" (a JSON      *)
(* string holding a fenced JSON object d) or "dict" (a JSON object d).     *)
(***************************************************************************)
\* the PromptTemplate's input_variables for each check_type
PromptInputVariables(check_type) ==
    IF check_type = "input" THEN {"query"} ELSE {"response"}

\* prompt.format(**{check_type: text}) raises KeyError when a variable of the
\* template is not among the keyword arguments given.
FormatRaises(check_type) == ~(PromptInputVariables(check_type) \subseteq {check_type})

\* the dict returned from the except branch
ValidationErrorDefault ==
    [is_safe |-> TRUE, category |-> "educational",
     reason |-> "Validation error, defaulting to safe", confidence |-> 50]

\* what one call of _llm_based_check did: whether the model was invoked,
\* whether the except branch was taken, and the value returned (a dict d, or
\* a value that is not a dict)
Checked(invoked, failed, isdict, d) ==
    [called |-> TRUE, invoked |-> invoked, failed |-> failed, isdict |-> isdict,
     d |-> d]

\* _llm_based_check was not called
NoCheck == [called |-> FALSE]

_llm_based_check(text, check_type, resp) ==
    IF FormatRaises(check_type)
    THEN Checked(FALSE, TRUE, TRUE, ValidationErrorDefault)
    ELSE IF resp.kind \in {"raise", "text"}
    THEN Checked(TRUE, TRUE, TRUE, ValidationErrorDefault)
    ELSE IF resp.kind = "nondict"
    THEN Checked(TRUE, FALSE, FALSE, << >>)
    ELSE Checked(TRUE, FALSE, TRUE, resp.d)

(***************************************************************************)
(* StudyMateGuardrails.validate_input                                      *)
(*                                                                         *)
(* Returns [exc, verdict, metrics, judge, check]: the exception that       *)
(* propagates ("" when the call returns), the GuardrailResult returned,    *)
(* the metrics after the call, whether the Policy Judge model was invoked, *)
(* and what its call of _llm_based_check did (NoCheck if it made none).    *)
(***************************************************************************)
NoVerdict == [none |-> TRUE]

\* seeded fault: a WARNING verdict is counted in warning_queries
Returned_CountsWarnings(verdict, m, check) ==
    [exc |-> "", verdict |-> verdict,
     metrics |-> IF verdict.safety_level = "WARNING"
                 THEN [m EXCEPT !.warning_queries = @ + 1] ELSE m,
     judge |-> check.called /\ check.invoked, check |-> check]

Returned(verdict, m, check) ==
    [exc |-> "", verdict |-> verdict, metrics |-> m,
     judge |-> check.called /\ check.invoked, check |-> check]

Thrown(exc, m, check) ==
    [exc |-> exc, verdict |-> NoVerdict, metrics |-> m,
     judge |-> check.called /\ check.invoked, check |-> check]

\* the entry appended to recent_blocks (its timestamp is left out)
BlockEntry(query, category, reason) ==
    [query |-> IF Len(query) > 100 THEN Truncate(query, 100) \o <<"...">> ELSE query,
     category |-> category, reason |-> reason]

\* Seeded fault: blocked_queries is not incremented.
CountBlocked_CategoryOnly(m, category) ==
    [m EXCEPT !.category_counts = CountOne(@, category)]

\* blocked_queries += 1; category_counts[category] += 1
CountBlocked(m, category) ==
    [m EXCEPT !.blocked_queries = @ + 1,
              !.category_counts = CountOne(@, category)]

validate_input(query, m, enabled, resp) ==
    LET m1 == [m EXCEPT !.total_queries = @ + 1]
        rule == _rule_based_check(query)
        llm == _llm_based_check(query, "input", resp)
        category == Get(llm.d, "category", "inappropriate")
    IN
    IF IsBlank(query)
    THEN Returned(GuardrailResult(FALSE, "BLOCKED", "off_topic", "Empty query",
                                  << >>, 100), m1, NoCheck)
    ELSE IF Len(query) > MAX_QUERY_LENGTH
    THEN Returned(GuardrailResult(FALSE, "BLOCKED", "off_topic", "Query too long",
                                  Truncate(query, MAX_QUERY_LENGTH), 100), m1, NoCheck)
    ELSE IF ~rule.safe
    THEN Returned(GuardrailResult(FALSE, "BLOCKED", rule.category, rule.reason,
                                  _sanitize_text(query), 90),
                  [CountBlocked(m1, rule.category) EXCEPT
                      !.recent_blocks = Append(@, BlockEntry(query, rule.category,
                                                             rule.reason))],
                  NoCheck)
    ELSE IF enabled /\ ~llm.isdict
    THEN Thrown("AttributeError", m1, llm)
    ELSE IF enabled /\ ~Get(llm.d, "is_safe", TRUE)
    THEN IF category \notin ContentCategoryValues
         THEN Thrown("ValueError", m1, llm)
         ELSE Returned(GuardrailResult(FALSE, "BLOCKED", category,
                                       Get(llm.d, "reason", "LLM validation failed"),
                                       _sanitize_text(query),
                                       Get(llm.d, "confidence", 80)),
                       CountBlocked(m1, category), llm)
    ELSE Returned(GuardrailResult(TRUE, "SAFE", NoCategory,
                                  "Query passed all safety checks",
                                  _sanitize_text(query), 95),
                  [m1 EXCEPT !.safe_queries = @ + 1],
                  IF enabled THEN llm ELSE NoCheck)

(***************************************************************************)
(* StudyMateGuardrails.validate_output                                     *)
(* Returns [exc, verdict, metrics, judge, check] like validate_input.      *)
(***************************************************************************)
\* f"Response contains {rule_reason}"
ResponseContains(rule_reason) ==
    CASE rule_reason = "Contains inappropriate content" ->
            "Response contains Contains inappropriate content"
      [] rule_reason = "Contains personal information" ->
            "Response contains Contains personal information"
      [] rule_reason = "Academic dishonesty attempt detected" ->
            "Response contains Academic dishonesty attempt detected"
      [] OTHER -> "Response contains Query appears off-topic for educational assistant"

validate_output(response, m, enabled, resp) ==
    LET rule == _rule_based_check(response)
        llm == _llm_based_check(response, "output", resp)
        category == Get(llm.d, "category", "inappropriate")
    IN
    IF Len(response) > MAX_RESPONSE_LENGTH
    THEN Returned(GuardrailResult(FALSE, "WARNING", "off_topic", "Response too long",
                                  Truncate(response, MAX_RESPONSE_LENGTH) \o <<"...">>,
                                  80), m, NoCheck)
    ELSE IF ~rule.safe
    THEN Returned(GuardrailResult(FALSE, "BLOCKED", rule.category,
                                  ResponseContains(rule.reason),
                                  _sanitize_response(response), 90), m, NoCheck)
    ELSE IF enabled /\ ~llm.isdict
    THEN Thrown("AttributeError", m, llm)
    ELSE IF enabled /\ ~Get(llm.d, "is_safe", TRUE)
    THEN IF category \notin ContentCategoryValues
         THEN Thrown("ValueError", m, llm)
         ELSE Returned(GuardrailResult(FALSE, "BLOCKED", category,
                                       Get(llm.d, "reason", "Response validation failed"),
                                       _sanitize_response(response),
                                       Get(llm.d, "confidence", 80)),
                       m, llm)
    ELSE Returned(GuardrailResult(TRUE, "SAFE", NoCategory,
                                  "Response passed all safety checks",
                                  response, 95),
                  m, IF enabled THEN llm ELSE NoCheck)

(***************************************************************************)
(* Enumerations and records of rag_engine.py                               *)
(***************************************************************************)
\* QualityLevel
QualityLevels == {"EXCELLENT", "GOOD", "FAIR", "POOR"}

\* RetrievalLevel
RetrievalLevels == {"PRIMARY", "SECONDARY", "TERTIARY", "QUATERNARY", "FALLBACK"}

ContextEvaluation(relevance_score, completeness_score, clarity_score, quality_level, needs_correction, reasoning) ==
    [relevance_score |-> relevance_score, completeness_score |-> completeness_score,
     clarity_score |-> clarity_score, quality_level |-> quality_level,
     needs_correction |-> needs_correction, reasoning |-> reasoning]

NoEvaluation == [none |-> TRUE]

\* RAGResponse (processing_time, a wall-clock reading, is left out)
RAGResponse(answer_, context_quality, level, sources, corrected, guardrail_passed, confidence, safety_check, completeness_score, specificity_score) ==
    [answer |-> answer_, context_quality |-> context_quality,
     retrieval_level |-> level, sources |-> sources,
     was_corrected |-> corrected, guardrail_passed |-> guardrail_passed,
     confidence |-> confidence, safety_check |-> safety_check,
     completeness_score |-> completeness_score,
     specificity_score |-> specificity_score]

NoResponse == [none |-> TRUE]

(***************************************************************************)
(* Retrieval strategies.  store is whether self.vectorstore is set; out is *)
(* the behaviour of similarity_search ([kind |-> "raise"] or               *)
(* [kind |-> "docs", docs |-> ...]); a Document is [page_content, page],   *)
(* page 0 standing for a missing or falsy 'page' entry of its metadata.    *)
(* Each returns [docs, context, searched, search_query, k, expanded].      *)
(***************************************************************************)
RECURSIVE JoinContents(_)
\* "\n\n".join([doc.page_content for doc in docs if doc.page_content])
JoinContents(docs) ==
    IF docs = << >> THEN << >>
    ELSE LET rest == JoinContents(Tail(docs))
             content == Head(docs).page_content
         IN  IF content = << >> THEN rest
             ELSE IF rest = << >> THEN content
             ELSE content \o <<"">> \o rest

Retrieved(docs, context, searched, search_query, k, expanded) ==
    [docs |-> docs, context |-> context, searched |-> searched,
     search_query |-> search_query, k |-> k, expanded |-> expanded]

\* the part the four strategies share: the search and what follows it
SearchAndJoin(search_query, k, out, expanded) ==
    IF out.kind = "raise" \/ out.docs = << >>
    THEN Retrieved(<< >>, << >>, TRUE, search_query, k, expanded)
    ELSE Retrieved(out.docs, JoinContents(out.docs), TRUE, search_query, k, expanded)

NotRetrieved(k) == Retrieved(<< >>, << >>, FALSE, << >>, k, FALSE)

_retrieve_primary(query, store, out) ==
    IF ~store THEN NotRetrieved(TOP_K)
    ELSE SearchAndJoin(query, TOP_K, out, FALSE)

EducationalTerms ==
    <<"definition", "explanation", "example", "concept", "theory", "principle">>

_retrieve_secondary(query, store, out) ==
    IF ~store THEN NotRetrieved(TOP_K + 2)
    ELSE SearchAndJoin(SpaceJoin(query, EducationalTerms), TOP_K + 2, out, FALSE)

\* llm is the behaviour of the expansion call: [kind |-> "raise"] or
\* [kind |-> "text", content |-> ...]
_retrieve_tertiary(query, store, llm, out) ==
    IF ~store THEN NotRetrieved(TOP_K + 4)
    ELSE IF llm.kind = "raise"
    THEN Retrieved(<< >>, << >>, FALSE, << >>, TOP_K + 4, TRUE)
    ELSE SearchAndJoin(Strip(llm.content), TOP_K + 4, out, TRUE)

_retrieve_quaternary(query, store, llm, out) ==
    IF ~store THEN NotRetrieved(TOP_K + 6)
    ELSE IF llm.kind = "raise"
    THEN Retrieved(<< >>, << >>, FALSE, << >>, TOP_K + 6, TRUE)
    ELSE SearchAndJoin(SpaceJoin(query, Strip(llm.content)), TOP_K + 6, out, TRUE)

(***************************************************************************)
(* StudyMateRAG._evaluate_context                                          *)
(*                                                                         *)
(* resp is the behaviour of the evaluator call: kind "raise", "text"       *)
(* (content that json.loads rejects), "nondict" (JSON that is not an       *)
(* object) or "dict" (a JSON object d; a value of d is [t, n], t = "num"   *)
(* for a number of n hundredths and "str" for a value that is no number).  *)
(* Returns [exc, evaluation, invoked].                                     *)
(***************************************************************************)
Num(n) == [t |-> "num", n |-> n]
NotANumber == [t |-> "str", n |-> 0]

\* seeded fault: a failed evaluation defaults to the lowest scores
EvaluationErrorDefault_Zero ==
    [relevance_score |-> Num(0), completeness_score |-> Num(0),
     clarity_score |-> Num(0), reasoning |-> "Evaluation parsing failed"]

\* the scores dict of the except branch
EvaluationErrorDefault ==
    [relevance_score |-> Num(50), completeness_score |-> Num(50),
     clarity_score |-> Num(50), reasoning |-> "Evaluation parsing failed"]

\* The triples of scores, among the multiples of 0.2, whose sum is exactly
\* three times a threshold and whose double-precision mean (a + b + c) / 3
\* falls below that threshold: (0.0 + 0.6 + 0.6) / 3 is 0.39999999999999997.
RoundsBelow ==
    {<<0, 20, 100>>, <<0, 60, 60>>, <<0, 100, 20>>, <<20, 0, 100>>,
     <<20, 80, 20>>, <<20, 100, 0>>, <<40, 60, 20>>, <<40, 100, 100>>,
     <<60, 0, 60>>, <<60, 40, 20>>, <<60, 60, 0>>, <<60, 80, 100>>,
     <<80, 20, 20>>, <<80, 60, 100>>, <<80, 100, 60>>, <<100, 0, 20>>,
     <<100, 20, 0>>, <<100, 40, 100>>, <<100, 80, 60>>, <<100, 100, 40>>}

\* (a + b + c) / 3 >= threshold, in double precision
MeanAtLeast(a, b, c, threshold) ==
    IF a + b + c = 3 * threshold
    THEN <<a, b, c>> \notin RoundsBelow
    ELSE a + b + c > 3 * threshold

QualityOf(a, b, c) ==
    IF MeanAtLeast(a, b, c, 80) THEN "EXCELLENT"
    ELSE IF MeanAtLeast(a, b, c, 60) THEN "GOOD"
    ELSE IF MeanAtLeast(a, b, c, 40) THEN "FAIR"
    ELSE "POOR"

\* seeded fault: only a POOR context needs correction
NeedsCorrection_PoorOnly(quality_level) == quality_level = "POOR"

NeedsCorrection(quality_level) == quality_level \in {"FAIR", "POOR"}

Evaluated(evaluation, invoked) ==
    [exc |-> "", evaluation |-> evaluation, invoked |-> invoked]

EvaluationThrown(exc) ==
    [exc |-> exc, evaluation |-> NoEvaluation, invoked |-> TRUE]

\* seeded fault: only the empty context is short-circuited, a context of
\* whitespace goes to the evaluator model
_evaluate_context_EmptyOnly(query, context, resp) ==
    LET scores == IF resp.kind \in {"raise", "text"} THEN EvaluationErrorDefault
                  ELSE resp.d
        r == Get(scores, "relevance_score", Num(50))
        c == Get(scores, "completeness_score", Num(50))
        cl == Get(scores, "clarity_score", Num(50))
        quality_level == QualityOf(r.n, c.n, cl.n)
    IN
    IF context = << >>
    THEN Evaluated(ContextEvaluation(0, 0, 0, "POOR", TRUE, "No context retrieved"),
                   FALSE)
    ELSE IF resp.kind = "nondict"
    THEN EvaluationThrown("AttributeError")
    ELSE IF r.t # "num" \/ c.t # "num" \/ cl.t # "num"
    THEN EvaluationThrown("TypeError")
    ELSE Evaluated(ContextEvaluation(r.n, c.n, cl.n, quality_level,
                                     NeedsCorrection(quality_level),
                                     Get(scores, "reasoning", "")),
                   TRUE)

_evaluate_context(query, context, resp) ==
    LET scores == IF resp.kind \in {"raise", "text"} THEN EvaluationErrorDefault
                  ELSE resp.d
        r == Get(scores, "relevance_score", Num(50))
        c == Get(scores, "completeness_score", Num(50))
        cl == Get(scores, "clarity_score", Num(50))
        quality_level == QualityOf(r.n, c.n, cl.n)
    IN
    IF IsBlank(context)
    THEN Evaluated(ContextEvaluation(0, 0, 0, "POOR", TRUE, "No context retrieved"),
                   FALSE)
    ELSE IF resp.kind = "nondict"
    THEN EvaluationThrown("AttributeError")
    ELSE IF r.t # "num" \/ c.t # "num" \/ cl.t # "num"
    THEN EvaluationThrown("TypeError")
    ELSE Evaluated(ContextEvaluation(r.n, c.n, cl.n, quality_level,
                                     NeedsCorrection(quality_level),
                                     Get(scores, "reasoning", "")),
                   TRUE)

(***************************************************************************)
(* StudyMateRAG._refine_query: llm is the behaviour of the refiner call.   *)
(***************************************************************************)
\* seeded fault: a failed refinement returns the empty string
_refine_query_Empty(original_query, evaluation, llm) ==
    IF llm.kind = "raise" THEN << >> ELSE Strip(llm.content)

_refine_query(original_query, evaluation, llm) ==
    IF llm.kind = "raise" THEN original_query ELSE Strip(llm.content)

\* Seeded fault: a GOOD context is labelled like an EXCELLENT one.
ConfidenceOf_GoodIsHigh(quality_level) ==
    CASE quality_level \in {"EXCELLENT", "GOOD"} -> "High"
      [] quality_level = "FAIR" -> "Medium"
      [] OTHER -> "Low"

\* the confidence label of query() (the emoji that ends each label is left out)
ConfidenceOf(quality_level) ==
    CASE quality_level = "EXCELLENT" -> "High"
      [] quality_level = "GOOD" -> "Good"
      [] quality_level = "FAIR" -> "Medium"
      [] OTHER -> "Low"

\* list(set(f"Page {page}" for doc in docs if doc.metadata.get('page')))
SourcesOf(docs) == {docs[i].page : i \in {j \in 1..Len(docs) : docs[j].page # 0}}

NoInformation == <<"I couldn't find any relevant information in your uploaded document.">>
DifferentResponse == <<"I'm sorry, but I need to provide a different response.">>

(***************************************************************************)
(* Inputs: the questions asked and the behaviours of the collaborators     *)
(***************************************************************************)
LongQuery ==
    <<"what", "is", "a", "noun", "and", "what", "is", "a", "verb", "and", "what",
      "is", "an", "adverb">>

OffTopicQuery ==
    <<"tell", "me", "about", "the", "party", "and", "the", "movie", "from", "last",
      "week">>

Queries ==
    {<< >>, <<"", "">>,
     <<"what", "is", "a", "noun">>,
     <<"", "what", "", "is", "a", "verb", "">>,
     <<"how", "to", "Cheat", "on", "exam">>,
     <<"steal", "answers">>,
     <<"mail", "a@b.com">>,
     LongQuery, OffTopicQuery}

\* behaviours of the Policy Judge model call
JudgeResponses ==
    {[kind |-> "raise"], [kind |-> "text"], [kind |-> "nondict"],
     [kind |-> "dict", d |-> [is_safe |-> TRUE, category |-> "educational",
                              reason |-> "fine", confidence |-> 90]],
     [kind |-> "dict", d |-> [is_safe |-> FALSE, category |-> "harmful",
                              reason |-> "harmful request", confidence |-> 70]],
     [kind |-> "dict", d |-> [is_safe |-> FALSE, category |-> "spam",
                              reason |-> "spam", confidence |-> 70]]}

Doc(page_content, page) == [page_content |-> page_content, page |-> page]

\* behaviours of vectorstore.similarity_search
SearchOutcomes ==
    {[kind |-> "raise"],
     [kind |-> "docs", docs |-> << >>],
     [kind |-> "docs", docs |-> <<Doc(<<"a", "noun", "names", "a", "thing">>, 3)>>],
     [kind |-> "docs", docs |-> <<Doc(<< >>, 0)>>],
     [kind |-> "docs", docs |-> <<Doc(<<"a", "verb", "is", "an", "action">>, 4),
                                  Doc(<<"", "">>, 4)>>]}

\* behaviours of the evaluator model call
EvalResponses ==
    {[kind |-> "raise"], [kind |-> "text"], [kind |-> "nondict"],
     [kind |-> "dict", d |-> [relevance_score |-> Num(90), completeness_score |-> Num(90),
                              clarity_score |-> Num(80), reasoning |-> "complete"]],
     [kind |-> "dict", d |-> [relevance_score |-> Num(70), completeness_score |-> Num(60),
                              clarity_score |-> Num(80), reasoning |-> "adequate"]],
     [kind |-> "dict", d |-> [relevance_score |-> Num(0), completeness_score |-> Num(60),
                              clarity_score |-> Num(60), reasoning |-> "partial"]],
     [kind |-> "dict", d |-> [relevance_score |-> Num(10), completeness_score |-> Num(20),
                              clarity_score |-> Num(30), reasoning |-> "unrelated"]],
     [kind |-> "dict", d |-> [reasoning |-> "no scores"]],
     [kind |-> "dict", d |-> [relevance_score |-> Num(90), completeness_score |-> NotANumber,
                              clarity_score |-> Num(80), reasoning |-> "high"]]}

\* behaviours of the refiner and expansion model calls
RewriteResponses ==
    {[kind |-> "raise"],
     [kind |-> "text", content |-> <<"", "noun", "grammar", "">>]}

\* behaviours of the answer-generation model call
GenerationResponses ==
    {[kind |-> "raise"],
     [kind |-> "text", content |-> <<"", "a", "noun", "names", "a", "thing", "">>],
     [kind |-> "text", content |-> <<"you", "could", "kill", "time">>],
     [kind |-> "text", content |-> <<"a", "noun", "is", "a", "word", "that", "names">>]}

(***************************************************************************)
(* State                                                                   *)
(***************************************************************************)
VARIABLES
    vectorstore,        \* StudyMateRAG.vectorstore is set
    enable_guardrails,  \* config.ENABLE_GUARDRAILS
    metrics,            \* StudyMateGuardrails.metrics
    pc,                 \* position in query()
    user_query, input_check, safe_query, docs, context, evaluation,
    retrieval_level, was_corrected, refined_query, answer, output_check,
                        \* the locals of query()
    result,             \* the RAGResponse returned by query()
    exception,          \* the exception that left query() ("" if none)
    calls,              \* the calls query() has made, in order
    nqueries,           \* queries started on this instance
    llm_check,          \* what the latest gate call's _llm_based_check did
    threads,            \* the requests running validate_input concurrently
    world,              \* the collaborators' responses when they are fixed
    seen                \* the queries answered before, with their outcomes

vars ==
    <<vectorstore, enable_guardrails, metrics, pc, user_query, input_check,
      safe_query, docs, context, evaluation, retrieval_level, was_corrected,
      refined_query, answer, output_check, result, exception, calls, nqueries,
      llm_check, threads, world, seen>>

Unassigned == "unassigned"

\* the requests that share one gate instance
Threads == 1..NumThreads

\* a request that has not called validate_input yet
IdleThread == [pc |-> "idle"]

\* the collaborators are not fixed: each call draws its response
NoWorld == [none |-> TRUE]

\* A call made by query(): the operation, the retrieval level it belongs to,
\* its text argument, the k of a search and, for an evaluation, its outcome.
Call(op, level, arg, k, out) ==
    [op |-> op, level |-> level, arg |-> arg, k |-> k, out |-> out]

Init ==
    /\ vectorstore \in BOOLEAN
    /\ enable_guardrails \in BOOLEAN
    /\ metrics = SafetyMetrics
    /\ pc = "idle"
    /\ user_query = << >>
    /\ input_check = NoVerdict
    /\ safe_query = << >>
    /\ docs = << >>
    /\ context = << >>
    /\ evaluation = NoEvaluation
    /\ retrieval_level = Unassigned
    /\ was_corrected = FALSE
    /\ refined_query = << >>
    /\ answer = << >>
    /\ output_check = NoVerdict
    /\ result = NoResponse
    /\ exception = ""
    /\ calls = << >>
    /\ nqueries = 0
    /\ llm_check = NoCheck
    /\ threads = [t \in Threads |-> IdleThread]
    /\ world = NoWorld
    /\ seen = << >>

\* Seeded fault: the rejected exit reports that the guardrail passed.
RejectedResponse_Passed(check) ==
    RAGResponse(<<check.reason>>, "POOR", "FALLBACK", {}, FALSE, TRUE, "N/A", check,
                0, 0)

\* the RAGResponse returned when the input is rejected
RejectedResponse(check) ==
    RAGResponse(<<check.reason>>, "POOR", "FALLBACK", {}, FALSE, FALSE, "N/A", check,
                0, 0)

\* Seeded fault: the empty-PRIMARY exit reports the level it stopped at.
NoDocumentsResponse_Primary(check) ==
    RAGResponse(NoInformation, "POOR", "PRIMARY", {}, FALSE, TRUE, "Low", check, 0, 0)

\* the RAGResponse returned when PRIMARY retrieval finds no documents
NoDocumentsResponse(check) ==
    RAGResponse(NoInformation, "POOR", "FALLBACK", {}, FALSE, TRUE, "Low", check, 0, 0)

\* Seeded fault: the final response carries the output verdict as its
\* safety_check.
FinalResponse_OutputCheck(final_answer, final_evaluation, level, final_docs, corrected, out_check, in_check) ==
    RAGResponse(final_answer, final_evaluation.quality_level, level,
                SourcesOf(final_docs), corrected, out_check.is_safe,
                ConfidenceOf(final_evaluation.quality_level), out_check,
                final_evaluation.completeness_score,
                final_evaluation.relevance_score)

\* the RAGResponse returned at the end of query()
FinalResponse(final_answer, final_evaluation, level, final_docs, corrected, out_check, in_check) ==
    RAGResponse(final_answer, final_evaluation.quality_level, level,
                SourcesOf(final_docs), corrected, out_check.is_safe,
                ConfidenceOf(final_evaluation.quality_level), in_check,
                \* score * 100, a percentage: the hundredths themselves
                final_evaluation.completeness_score,
                final_evaluation.relevance_score)

\* Seeded fault: only an EXCELLENT context stops the escalation.
EscalateOrGenerate_UnlessExcellent(current, escalate) ==
    IF current.quality_level # "EXCELLENT" THEN escalate ELSE "generate"

\* Seeded fault: a gate that has seen two queries stops the escalation.
EscalateOrGenerate_UnlessBusy(current, escalate) ==
    IF current.needs_correction /\ metrics.total_queries < 2 THEN escalate ELSE "generate"

\* if evaluation.needs_correction: try the next strategy; else generate
EscalateOrGenerate(current, escalate) ==
    IF current.needs_correction THEN escalate ELSE "generate"

(***************************************************************************)
(* query(), one action per step                                            *)
(***************************************************************************)
\* query() is entered: its locals are not assigned yet
StartQuery(q) ==
    /\ pc \in {"idle", "done", "raised"}
    /\ nqueries' = nqueries + 1
    /\ user_query' = q
    /\ pc' = "validate_input"
    /\ input_check' = NoVerdict
    /\ safe_query' = << >>
    /\ docs' = << >>
    /\ context' = << >>
    /\ evaluation' = NoEvaluation
    /\ retrieval_level' = Unassigned
    /\ was_corrected' = FALSE
    /\ refined_query' = << >>
    /\ answer' = << >>
    /\ output_check' = NoVerdict
    /\ result' = NoResponse
    /\ exception' = ""
    /\ calls' = << >>
    /\ llm_check' = NoCheck
    /\ UNCHANGED <<vectorstore, enable_guardrails, metrics, threads, world>>

Query(q) == nqueries < MaxQueries /\ StartQuery(q) /\ UNCHANGED seen

\* the calls a gate call adds to the log; the outcome of the gate call is the
\* safety level of its verdict
GateCalls(op, text, r) ==
    <<Call(op, "", text, 0, IF r.exc # "" THEN "raise" ELSE r.verdict.safety_level)>> \o
    (IF r.judge THEN <<Call("judge", "", text, 0, "")>> ELSE << >>)

\* STEP 1: input guardrails
GateIn(resp) ==
    LET r == validate_input(user_query, metrics, enable_guardrails, resp) IN
    /\ pc = "validate_input"
    /\ metrics' = r.metrics
    /\ llm_check' = r.check
    /\ calls' = calls \o GateCalls("validate_input", user_query, r)
    /\ IF r.exc # ""
       THEN /\ pc' = "raised"
            /\ exception' = r.exc
            /\ UNCHANGED <<input_check, safe_query, result>>
       ELSE /\ input_check' = r.verdict
            /\ exception' = ""
            /\ IF ~r.verdict.is_safe
               THEN /\ result' = RejectedResponse(r.verdict)
                    /\ pc' = "done"
                    /\ UNCHANGED safe_query
               ELSE /\ safe_query' = r.verdict.sanitized_text
                    /\ pc' = "retrieve_primary"
                    /\ UNCHANGED result
    /\ UNCHANGED <<vectorstore, enable_guardrails, user_query, docs, context,
                   evaluation, retrieval_level, was_corrected, refined_query, answer,
                   output_check, nqueries,
                   threads, world, seen>>

\* the calls a retrieval strategy adds to the log
RetrievalCalls(level, query, r) ==
    <<Call("retrieve", level, query, r.k, "")>> \o
    (IF r.expanded THEN <<Call("expand", level, query, 0, "")>> ELSE << >>) \o
    (IF r.searched THEN <<Call("search", level, r.search_query, r.k, "")>> ELSE << >>)

\* Seeded fault: PRIMARY retrieval is given the query as the user typed it.
RetrievePrimary_RawQuery(out) ==
    LET r == _retrieve_primary(user_query, vectorstore, out) IN
    /\ pc = "retrieve_primary"
    /\ docs' = r.docs
    /\ context' = r.context
    /\ retrieval_level' = "PRIMARY"
    /\ calls' = calls \o RetrievalCalls("PRIMARY", user_query, r)
    /\ IF r.docs = << >>
       THEN /\ result' = NoDocumentsResponse(input_check)
            /\ pc' = "done"
       ELSE /\ pc' = "evaluate_primary"
            /\ UNCHANGED result
    /\ UNCHANGED <<vectorstore, enable_guardrails, metrics, user_query, input_check,
                   safe_query, evaluation, was_corrected, refined_query, answer,
                   output_check, exception, nqueries,
                   llm_check,
                   threads, world, seen>>

\* STEP 2: primary retrieval
RetrievePrimary(out) ==
    LET r == _retrieve_primary(safe_query, vectorstore, out) IN
    /\ pc = "retrieve_primary"
    /\ docs' = r.docs
    /\ context' = r.context
    /\ retrieval_level' = "PRIMARY"
    /\ calls' = calls \o RetrievalCalls("PRIMARY", safe_query, r)
    /\ IF r.docs = << >>
       THEN /\ result' = NoDocumentsResponse(input_check)
            /\ pc' = "done"
       ELSE /\ pc' = "evaluate_primary"
            /\ UNCHANGED result
    /\ UNCHANGED <<vectorstore, enable_guardrails, metrics, user_query, input_check,
                   safe_query, evaluation, was_corrected, refined_query, answer,
                   output_check, exception, nqueries,
                   llm_check,
                   threads, world, seen>>

\* the calls an evaluation adds to the log
EvaluationCalls(level, query, r) ==
    <<Call("evaluate", level, query, 0,
           IF r.exc # "" THEN "raise"
           ELSE IF r.evaluation.needs_correction THEN "needs_correction"
           ELSE "adequate")>> \o
    (IF r.invoked THEN <<Call("evaluator", level, query, 0, "")>> ELSE << >>)

\* evaluation = self._evaluate_context(query, context) at `level`, followed by
\* the assignments and the branch that come after it in query()
Evaluate(here, level, query, resp, corrected, escalate) ==
    LET r == _evaluate_context(query, context, resp) IN
    /\ pc = here
    /\ calls' = calls \o EvaluationCalls(level, query, r)
    /\ IF r.exc # ""
       THEN /\ pc' = "raised"
            /\ exception' = r.exc
            /\ UNCHANGED <<evaluation, retrieval_level, was_corrected>>
       ELSE /\ evaluation' = r.evaluation
            /\ retrieval_level' = level
            /\ was_corrected' = corrected
            /\ exception' = ""
            /\ pc' = EscalateOrGenerate(r.evaluation, escalate)
    /\ UNCHANGED <<vectorstore, enable_guardrails, metrics, user_query, input_check,
                   safe_query, docs, context, refined_query, answer, output_check,
                   result, nqueries, llm_check,
                   threads, world, seen>>

\* STEP 3: context quality evaluation
EvaluatePrimary(resp) ==
    Evaluate("evaluate_primary", "PRIMARY", safe_query, resp, FALSE, "retrieve_secondary")

\* Seeded fault: a failed expansion call is propagated to query().
Retrieve_Propagates(here, level, query, r, next) ==
    /\ pc = here
    /\ docs' = r.docs
    /\ context' = r.context
    /\ calls' = calls \o RetrievalCalls(level, query, r)
    /\ pc' = IF r.expanded /\ ~r.searched THEN "raised" ELSE next
    /\ UNCHANGED <<vectorstore, enable_guardrails, metrics, user_query, input_check,
                   safe_query, evaluation, retrieval_level, was_corrected,
                   refined_query, answer, output_check, result, exception, nqueries,
                   llm_check,
                   threads, world, seen>>

\* Seeded fault: a strategy that finds nothing leaves the passages of the
\* level before it in place.
Retrieve_KeepsEarlier(here, level, query, r, next) ==
    /\ pc = here
    /\ docs' = IF r.docs = << >> THEN docs ELSE r.docs
    /\ context' = IF r.docs = << >> THEN context ELSE r.context
    /\ calls' = calls \o RetrievalCalls(level, query, r)
    /\ pc' = next
    /\ UNCHANGED <<vectorstore, enable_guardrails, metrics, user_query, input_check,
                   safe_query, evaluation, retrieval_level, was_corrected,
                   refined_query, answer, output_check, result, exception, nqueries,
                   llm_check,
                   threads, world, seen>>

\* a retrieval strategy of the fallback ladder
Retrieve(here, level, query, r, next) ==
    /\ pc = here
    /\ docs' = r.docs
    /\ context' = r.context
    /\ calls' = calls \o RetrievalCalls(level, query, r)
    /\ pc' = next
    /\ UNCHANGED <<vectorstore, enable_guardrails, metrics, user_query, input_check,
                   safe_query, evaluation, retrieval_level, was_corrected,
                   refined_query, answer, output_check, result, exception, nqueries,
                   llm_check,
                   threads, world, seen>>

\* STEP 4: SECONDARY retrieval (keyword expansion)
RetrieveSecondary(out) ==
    Retrieve("retrieve_secondary", "SECONDARY", safe_query,
             _retrieve_secondary(safe_query, vectorstore, out), "evaluate_secondary")

\* Seeded fault: an inadequate SECONDARY context escalates straight to
\* QUATERNARY.
EvaluateSecondary_SkipsTertiary(resp) ==
    Evaluate("evaluate_secondary", "SECONDARY", safe_query, resp, was_corrected,
             "retrieve_quaternary")

EvaluateSecondary(resp) ==
    Evaluate("evaluate_secondary", "SECONDARY", safe_query, resp, was_corrected,
             "refine_query")

\* the calls a refinement adds to the log: _refine_query with the query and
\* the level of the evaluation it is given, and the refiner model call with
\* its outcome
RefineCalls(query, level, llm) ==
    <<Call("refine", level, query, 0, ""),
      Call("refiner", level, query, 0, IF llm.kind = "raise" THEN "raise" ELSE "")>>

\* Seeded fault: the refiner is given the query as the user typed it.
RefineQuery_RawQuery(llm) ==
    /\ pc = "refine_query"
    /\ refined_query' = _refine_query(user_query, evaluation, llm)
    /\ calls' = calls \o RefineCalls(user_query, retrieval_level, llm)
    /\ pc' = "retrieve_tertiary"
    /\ UNCHANGED <<vectorstore, enable_guardrails, metrics, user_query, input_check,
                   safe_query, docs, context, evaluation, retrieval_level,
                   was_corrected, answer, output_check, result, exception, nqueries,
                   llm_check,
                   threads, world, seen>>

\* refined_query = self._refine_query(safe_query, evaluation)
RefineQuery(llm) ==
    /\ pc = "refine_query"
    /\ refined_query' = _refine_query(safe_query, evaluation, llm)
    /\ calls' = calls \o RefineCalls(safe_query, retrieval_level, llm)
    /\ pc' = "retrieve_tertiary"
    /\ UNCHANGED <<vectorstore, enable_guardrails, metrics, user_query, input_check,
                   safe_query, docs, context, evaluation, retrieval_level,
                   was_corrected, answer, output_check, result, exception, nqueries,
                   llm_check,
                   threads, world, seen>>

\* TERTIARY retrieval (semantic expansion)
RetrieveTertiary(llm, out) ==
    Retrieve("retrieve_tertiary", "TERTIARY", refined_query,
             _retrieve_tertiary(refined_query, vectorstore, llm, out),
             "evaluate_tertiary")

\* Seeded fault: was_corrected is not set after the TERTIARY evaluation.
EvaluateTertiary_NotMarked(resp) ==
    Evaluate("evaluate_tertiary", "TERTIARY", refined_query, resp, was_corrected,
             "retrieve_quaternary")

EvaluateTertiary(resp) ==
    Evaluate("evaluate_tertiary", "TERTIARY", refined_query, resp, TRUE,
             "retrieve_quaternary")

\* Seeded fault: QUATERNARY retrieval goes back to the original query.
RetrieveQuaternary_Original(llm, out) ==
    Retrieve("retrieve_quaternary", "QUATERNARY", safe_query,
             _retrieve_quaternary(safe_query, vectorstore, llm, out),
             "evaluate_quaternary")

\* QUATERNARY retrieval (cross-domain expansion)
RetrieveQuaternary(llm, out) ==
    Retrieve("retrieve_quaternary", "QUATERNARY", refined_query,
             _retrieve_quaternary(refined_query, vectorstore, llm, out),
             "evaluate_quaternary")

\* Seeded fault: retrieval_level is not reassigned after the QUATERNARY
\* evaluation.
EvaluateQuaternary_LevelKept(resp) ==
    LET r == _evaluate_context(refined_query, context, resp) IN
    /\ pc = "evaluate_quaternary"
    /\ calls' = calls \o EvaluationCalls("QUATERNARY", refined_query, r)
    /\ IF r.exc # ""
       THEN /\ pc' = "raised"
            /\ exception' = r.exc
            /\ UNCHANGED evaluation
       ELSE /\ evaluation' = r.evaluation
            /\ exception' = ""
            /\ pc' = "generate"
    /\ UNCHANGED <<vectorstore, enable_guardrails, metrics, user_query, input_check,
                   safe_query, docs, context, refined_query, answer, output_check,
                   result, nqueries, retrieval_level, was_corrected, llm_check,
                   threads, world, seen>>

\* Seeded fault: an inadequate QUATERNARY context is retrieved again.
EvaluateQuaternary_Retries(resp) ==
    Evaluate("evaluate_quaternary", "QUATERNARY", refined_query, resp, was_corrected,
             "retrieve_quaternary")

EvaluateQuaternary(resp) ==
    Evaluate("evaluate_quaternary", "QUATERNARY", refined_query, resp, was_corrected,
             "generate")

\* Seeded fault: the answer is generated for the query the pipeline ended
\* with, the refined one after a refinement.
Generate_Refined(llm) ==
    /\ pc = "generate"
    /\ calls' = Append(calls, Call("generate", retrieval_level,
                                   IF "refine" \in {calls[i].op : i \in 1..Len(calls)}
                                   THEN refined_query ELSE safe_query, 0, ""))
    /\ IF llm.kind = "raise"
       THEN /\ pc' = "raised"
            /\ exception' = "Exception"
            /\ UNCHANGED answer
       ELSE /\ answer' = Strip(llm.content)
            /\ exception' = ""
            /\ pc' = "validate_output"
    /\ UNCHANGED <<vectorstore, enable_guardrails, metrics, user_query, input_check,
                   safe_query, docs, context, evaluation, retrieval_level,
                   was_corrected, refined_query, output_check, result, nqueries,
                   llm_check,
                   threads, world, seen>>

\* STEP 5: generate the response from the context and safe_query
Generate(llm) ==
    /\ pc = "generate"
    /\ calls' = Append(calls, Call("generate", retrieval_level, safe_query, 0, ""))
    /\ IF llm.kind = "raise"
       THEN /\ pc' = "raised"
            /\ exception' = "Exception"
            /\ UNCHANGED answer
       ELSE /\ answer' = Strip(llm.content)
            /\ exception' = ""
            /\ pc' = "validate_output"
    /\ UNCHANGED <<vectorstore, enable_guardrails, metrics, user_query, input_check,
                   safe_query, docs, context, evaluation, retrieval_level,
                   was_corrected, refined_query, output_check, result, nqueries,
                   llm_check,
                   threads, world, seen>>

\* Seeded fault: a rejected answer is replaced by the verdict's sanitized text.
GateOut_ReturnsSanitized(resp) ==
    LET r == validate_output(answer, metrics, enable_guardrails, resp) IN
    /\ pc = "validate_output"
    /\ metrics' = r.metrics
    /\ llm_check' = r.check
    /\ calls' = calls \o GateCalls("validate_output", answer, r)
    /\ IF r.exc # ""
       THEN /\ pc' = "raised"
            /\ exception' = r.exc
            /\ UNCHANGED <<output_check, answer>>
       ELSE /\ output_check' = r.verdict
            /\ exception' = ""
            /\ answer' = r.verdict.sanitized_text
            /\ pc' = "assemble"
    /\ UNCHANGED <<vectorstore, enable_guardrails, user_query, input_check,
                   safe_query, docs, context, evaluation, retrieval_level,
                   was_corrected, refined_query, result, nqueries,
                   threads, world, seen>>

\* Seeded fault: only a BLOCKED answer is replaced, a WARNING one is returned.
GateOut_KeepsWarned(resp) ==
    LET r == validate_output(answer, metrics, enable_guardrails, resp) IN
    /\ pc = "validate_output"
    /\ metrics' = r.metrics
    /\ llm_check' = r.check
    /\ calls' = calls \o GateCalls("validate_output", answer, r)
    /\ IF r.exc # ""
       THEN /\ pc' = "raised"
            /\ exception' = r.exc
            /\ UNCHANGED <<output_check, answer>>
       ELSE /\ output_check' = r.verdict
            /\ exception' = ""
            /\ answer' = IF r.verdict.safety_level = "BLOCKED"
                         THEN DifferentResponse ELSE answer
            /\ pc' = "assemble"
    /\ UNCHANGED <<vectorstore, enable_guardrails, user_query, input_check,
                   safe_query, docs, context, evaluation, retrieval_level,
                   was_corrected, refined_query, result, nqueries,
                   threads, world, seen>>

\* STEP 6: output guardrails
GateOut(resp) ==
    LET r == validate_output(answer, metrics, enable_guardrails, resp) IN
    /\ pc = "validate_output"
    /\ metrics' = r.metrics
    /\ llm_check' = r.check
    /\ calls' = calls \o GateCalls("validate_output", answer, r)
    /\ IF r.exc # ""
       THEN /\ pc' = "raised"
            /\ exception' = r.exc
            /\ UNCHANGED <<output_check, answer>>
       ELSE /\ output_check' = r.verdict
            /\ exception' = ""
            /\ answer' = IF ~r.verdict.is_safe THEN DifferentResponse ELSE answer
            /\ pc' = "assemble"
    /\ UNCHANGED <<vectorstore, enable_guardrails, user_query, input_check,
                   safe_query, docs, context, evaluation, retrieval_level,
                   was_corrected, refined_query, result, nqueries,
                   threads, world, seen>>

\* sources, confidence and the RAGResponse returned
Assemble ==
    /\ pc = "assemble"
    /\ result' = FinalResponse(answer, evaluation, retrieval_level, docs,
                               was_corrected, output_check, input_check)
    /\ pc' = "done"
    /\ UNCHANGED <<vectorstore, enable_guardrails, metrics, user_query, input_check,
                   safe_query, docs, context, evaluation, retrieval_level,
                   was_corrected, refined_query, answer, output_check, exception,
                   calls, nqueries, llm_check,
                   threads, world, seen>>

Next ==
    \/ \E q \in Queries : Query(q)
    \/ \E resp \in JudgeResponses : GateIn(resp)
    \/ \E out \in SearchOutcomes : RetrievePrimary(out)
    \/ \E resp \in EvalResponses : EvaluatePrimary(resp)
    \/ \E out \in SearchOutcomes : RetrieveSecondary(out)
    \/ \E resp \in EvalResponses : EvaluateSecondary(resp)
    \/ \E llm \in RewriteResponses : RefineQuery(llm)
    \/ \E llm \in RewriteResponses, out \in SearchOutcomes : RetrieveTertiary(llm, out)
    \/ \E resp \in EvalResponses : EvaluateTertiary(resp)
    \/ \E llm \in RewriteResponses, out \in SearchOutcomes : RetrieveQuaternary(llm, out)
    \/ \E resp \in EvalResponses : EvaluateQuaternary(resp)
    \/ \E llm \in GenerationResponses : Generate(llm)
    \/ \E resp \in JudgeResponses : GateOut(resp)
    \/ Assemble

Spec == Init /\ [][Next]_vars

(***************************************************************************)
(* The Safety Gate on its own: validate_input and validate_output called   *)
(* directly on one StudyMateGuardrails instance, as the gate's tests and   *)
(* its reporting interface do.  user_query and answer hold the text of the *)
(* latest call, input_check and output_check its verdict, calls the calls  *)
(* made on the instance since it was constructed.                          *)
(***************************************************************************)
\* a text of n whitespace characters
Blanks(n) == [i \in 1..n |-> ""]

\* one text for each pattern of personal_info_patterns
PersonalData ==
    {<<"555-123-4567">>, <<"123-45-6789">>, <<"a@b.com">>,
     <<"12", "main", "street">>, <<"password">>}

\* texts placed before and after a personal-data match
Surroundings ==
    {<<<< >>, << >>>>,
     <<<<"call", "me", "at">>, << >>>>,
     <<<< >>, <<"please">>>>,
     <<<<"", "see">>, <<"", "thanks", "">>>>,
     <<<<"kill">>, << >>>>,
     <<<<"steal", "answers">>, << >>>>,
     <<<<"what", "is", "a", "noun", "and", "what", "is", "a", "verb", "and">>,
       <<"thanks">>>>}

\* the texts given to validate_input
GateQueries ==
    Queries
    \cup {Blanks(1), Blanks(MAX_QUERY_LENGTH + 1)}
    \cup {s[1] \o p \o s[2] : p \in PersonalData, s \in Surroundings}
    \cup {SubSeq(LongQuery, 1, MAX_QUERY_LENGTH),
          SubSeq(LongQuery, 1, MAX_QUERY_LENGTH + 1),
          <<"kill">> \o LongQuery,
          OffTopicQuery \o <<"", "">>,
          <<"steal", "answers", "at", "the", "party", "and", "the", "movie", "from",
            "last", "week">>,
          <<"escheat", "on">>, <<"how", "to", "cheats">>, <<"hack", "exam">>,
          <<"Password", "reset">>, <<"study", "party">>, <<"chapter", "12">>}

\* the texts given to validate_output
GateResponses ==
    {<< >>,
     <<"a", "noun", "names", "a", "thing">>,
     <<"a", "noun", "is", "a", "naming", "word">>,
     <<"a", "noun", "is", "a", "word", "that", "names">>,
     <<"you", "could", "kill", "time">>,
     <<"you", "could", "kill", "time", "with", "a", "book">>,
     <<"mail", "a@b.com">>,
     <<"steal", "answers">>}

GateInit == Init /\ ~vectorstore

\* the gate calls made on the instance so far
GateCallsMade == Cardinality({i \in 1..Len(calls) : calls[i].op # "judge"})

\* guardrails.validate_input(query), the call and what it leaves behind
InputCall(query, resp) ==
    LET r == validate_input(query, metrics, enable_guardrails, resp) IN
    /\ metrics' = r.metrics
    /\ llm_check' = r.check
    /\ calls' = calls \o GateCalls("validate_input", query, r)
    /\ user_query' = query
    /\ input_check' = r.verdict
    /\ exception' = r.exc
    /\ answer' = << >>
    /\ output_check' = NoVerdict
    /\ UNCHANGED <<vectorstore, enable_guardrails, pc, safe_query, docs, context,
                   evaluation, retrieval_level, was_corrected, refined_query,
                   result, nqueries,
                   threads, world, seen>>

\* guardrails.validate_input(query)
ValidateInput(query, resp) == GateCallsMade < MaxGateCalls /\ InputCall(query, resp)

\* guardrails.validate_output(response)
ValidateOutput(response, resp) ==
    LET r == validate_output(response, metrics, enable_guardrails, resp) IN
    /\ GateCallsMade < MaxGateCalls
    /\ metrics' = r.metrics
    /\ llm_check' = r.check
    /\ calls' = calls \o GateCalls("validate_output", response, r)
    /\ answer' = response
    /\ output_check' = r.verdict
    /\ exception' = r.exc
    /\ user_query' = << >>
    /\ input_check' = NoVerdict
    /\ UNCHANGED <<vectorstore, enable_guardrails, pc, safe_query, docs, context,
                   evaluation, retrieval_level, was_corrected, refined_query,
                   result, nqueries,
                   threads, world, seen>>

\* recent_blocks[-n:]
LastN(list, n) == IF Len(list) > n THEN SubSeq(list, Len(list) - n + 1, Len(list)) ELSE list

\* StudyMateGuardrails.get_metrics (the two percentages are left out)
get_metrics(m) ==
    [total_queries |-> m.total_queries, safe_queries |-> m.safe_queries,
     blocked_queries |-> m.blocked_queries, warning_queries |-> m.warning_queries,
     category_breakdown |-> m.category_counts,
     recent_blocks |-> LastN(m.recent_blocks, 10)]

GateNext ==
    \/ \E query \in GateQueries, resp \in JudgeResponses : ValidateInput(query, resp)
    \/ \E response \in GateResponses, resp \in JudgeResponses :
          ValidateOutput(response, resp)

GateSpec == GateInit /\ [][GateNext]_vars

(***************************************************************************)
(* The gate with its metrics reset between calls: reset_metrics replaces   *)
(* the accumulator by a fresh one.                                         *)
(***************************************************************************)
\* Seeded fault: the counters are reset, the rejection log is kept.
ResetMetrics_CountersOnly ==
    /\ GateCallsMade < MaxGateCalls
    /\ metrics' = [SafetyMetrics EXCEPT !.recent_blocks = metrics.recent_blocks]
    /\ calls' = Append(calls, Call("reset_metrics", "", << >>, 0, ""))
    /\ UNCHANGED <<vectorstore, enable_guardrails, pc, user_query, input_check,
                   safe_query, docs, context, evaluation, retrieval_level,
                   was_corrected, refined_query, answer, output_check, result,
                   exception, nqueries, llm_check, threads, world, seen>>

\* guardrails.reset_metrics()
ResetMetrics ==
    /\ GateCallsMade < MaxGateCalls
    /\ metrics' = SafetyMetrics
    /\ calls' = Append(calls, Call("reset_metrics", "", << >>, 0, ""))
    /\ UNCHANGED <<vectorstore, enable_guardrails, pc, user_query, input_check,
                   safe_query, docs, context, evaluation, retrieval_level,
                   was_corrected, refined_query, answer, output_check, result,
                   exception, nqueries, llm_check, threads, world, seen>>

MetricsNext ==
    \/ \E query \in GateQueries, resp \in JudgeResponses : ValidateInput(query, resp)
    \/ \E response \in GateResponses, resp \in JudgeResponses :
          ValidateOutput(response, resp)
    \/ ResetMetrics

MetricsSpec == GateInit /\ [][MetricsNext]_vars

(***************************************************************************)
(* The rejection log of one gate instance: a run of inputs that the        *)
(* Content Filter rejects, long enough to pass the 10 entries the          *)
(* accessor reports.                                                       *)
(***************************************************************************)
\* two texts the Content Filter rejects, with different entries in the log
LogQueries == {<<"steal", "answers">>, <<"mail", "a@b.com">>}

\* guardrails.validate_input(query) for a query of the run
RejectedInput(query, resp) == GateCallsMade < MaxLogCalls /\ InputCall(query, resp)

LogNext == \E query \in LogQueries : RejectedInput(query, [kind |-> "raise"])

LogSpec == GateInit /\ [][LogNext]_vars

(***************************************************************************)
(* validate_input called by several requests at once on one gate instance. *)
(* The method takes no lock, so its statements interleave: an augmented     *)
(* assignment reads the counter in one step and writes it in another. What *)
(* a call does to the metrics is read off validate_input: the counters it  *)
(* increments, the category it counts and the entry it appends, in the     *)
(* order of the statements.                                                *)
(***************************************************************************)
ConcQueries ==
    {<< >>, <<"what", "is", "a", "noun">>, <<"steal", "answers">>, <<"mail", "a@b.com">>}

\* self.metrics.<field> += 1
CounterUpdate(field) == [kind |-> "counter", key |-> field]

\* category_counts[key] = category_counts.get(key, 0) + 1
CategoryUpdate(key) == [kind |-> "category", key |-> key]

\* recent_blocks.append(entry)
AppendUpdate(entry) == [kind |-> "append", entry |-> entry]

\* the updates of the metrics that one call of validate_input makes, in order;
\* r is what the call returns on an instance of its own
UpdatesOf(r) ==
    <<CounterUpdate("total_queries")>> \o
    (IF r.metrics.blocked_queries > 0
     THEN <<CounterUpdate("blocked_queries"),
            CategoryUpdate(CHOOSE k \in DOMAIN r.metrics.category_counts : TRUE)>>
     ELSE << >>) \o
    (IF r.metrics.recent_blocks # << >>
     THEN <<AppendUpdate(r.metrics.recent_blocks[1])>>
     ELSE << >>) \o
    (IF r.metrics.safe_queries > 0 THEN <<CounterUpdate("safe_queries")>> ELSE << >>)

\* the branch of validate_input the call takes
BranchOf(r) ==
    IF r.metrics.safe_queries > 0 THEN "safe"
    ELSE IF r.metrics.blocked_queries > 0 THEN "blocked"
    ELSE "early"

\* request t calls validate_input(query)
Enter(t, query, resp) ==
    LET r == validate_input(query, SafetyMetrics, enable_guardrails, resp) IN
    /\ threads[t].pc = "idle"
    /\ threads' = [threads EXCEPT ![t] =
          [pc |-> "load", query |-> query, branch |-> BranchOf(r),
           category |-> IF r.exc = "" THEN r.verdict.blocked_category ELSE NoCategory,
           todo |-> UpdatesOf(r), tmp |-> 0]]
    /\ UNCHANGED <<vectorstore, enable_guardrails, metrics, pc, user_query,
                   input_check, safe_query, docs, context, evaluation,
                   retrieval_level, was_corrected, refined_query, answer,
                   output_check, result, exception, calls, nqueries, llm_check,
                   world, seen>>

\* the value an update reads
Current(update) ==
    IF update.kind = "counter" THEN metrics[update.key]
    ELSE Get(metrics.category_counts, update.key, 0)

\* the metrics after an update has written value
Written(update, value) ==
    IF update.kind = "counter" THEN [metrics EXCEPT ![update.key] = value]
    ELSE [metrics EXCEPT !.category_counts =
            [k \in (DOMAIN @) \cup {update.key} |->
                IF k = update.key THEN value ELSE @[k]]]

\* request t reads the counter of its next update
Load(t) ==
    /\ threads[t].pc = "load"
    /\ Head(threads[t].todo).kind \in {"counter", "category"}
    /\ threads' = [threads EXCEPT ![t].pc = "store",
                                  ![t].tmp = Current(Head(threads[t].todo))]
    /\ UNCHANGED <<vectorstore, enable_guardrails, metrics, pc, user_query,
                   input_check, safe_query, docs, context, evaluation,
                   retrieval_level, was_corrected, refined_query, answer,
                   output_check, result, exception, calls, nqueries, llm_check,
                   world, seen>>

\* the position of request t after an update: it returns after the last one
AfterUpdate(t) ==
    [threads EXCEPT ![t].todo = Tail(@),
                    ![t].pc = IF Tail(threads[t].todo) = << >> THEN "done" ELSE "load"]

\* request t writes the value it read, plus one
Store(t) ==
    /\ threads[t].pc = "store"
    /\ metrics' = Written(Head(threads[t].todo), threads[t].tmp + 1)
    /\ threads' = AfterUpdate(t)
    /\ UNCHANGED <<vectorstore, enable_guardrails, pc, user_query,
                   input_check, safe_query, docs, context, evaluation,
                   retrieval_level, was_corrected, refined_query, answer,
                   output_check, result, exception, calls, nqueries, llm_check,
                   world, seen>>

\* request t appends its entry to recent_blocks
AppendBlock(t) ==
    /\ threads[t].pc = "load"
    /\ Head(threads[t].todo).kind = "append"
    /\ metrics' = [metrics EXCEPT !.recent_blocks = Append(@, Head(threads[t].todo).entry)]
    /\ threads' = AfterUpdate(t)
    /\ UNCHANGED <<vectorstore, enable_guardrails, pc, user_query,
                   input_check, safe_query, docs, context, evaluation,
                   retrieval_level, was_corrected, refined_query, answer,
                   output_check, result, exception, calls, nqueries, llm_check,
                   world, seen>>

ConcNext ==
    \/ \E t \in Threads, query \in ConcQueries : Enter(t, query, [kind |-> "raise"])
    \/ \E t \in Threads : Load(t)
    \/ \E t \in Threads : Store(t)
    \/ \E t \in Threads : AppendBlock(t)

ConcSpec == GateInit /\ [][ConcNext]_vars

(***************************************************************************)
(* _evaluate_context called on its own, on a context and a query of the    *)
(* caller's choosing, with an evaluator that answers any three scores.     *)
(* world holds the behaviour of the evaluator model in the latest call.    *)
(***************************************************************************)
\* the scores the evaluator answers with: the multiples of 0.2
EvalScores == {0, 20, 40, 60, 80, 100}

\* behaviours of the evaluator model call
EvaluatorResponses ==
    {[kind |-> "raise"], [kind |-> "text"], [kind |-> "nondict"],
     [kind |-> "dict", d |-> [reasoning |-> "no scores"]],
     [kind |-> "dict", d |-> [relevance_score |-> Num(80), completeness_score |-> NotANumber,
                              clarity_score |-> Num(80), reasoning |-> "scored"]],
     [kind |-> "dict", d |-> [relevance_score |-> Num(150), completeness_score |-> Num(90),
                              clarity_score |-> Num(90), reasoning |-> "above the scale"]],
     [kind |-> "dict", d |-> [relevance_score |-> Num(10), completeness_score |-> Num(-20),
                              clarity_score |-> Num(10), reasoning |-> "below the scale"]]} \cup
    {[kind |-> "dict", d |-> [relevance_score |-> Num(a), completeness_score |-> Num(b),
                              clarity_score |-> Num(c), reasoning |-> "scored"]] :
        a \in EvalScores, b \in EvalScores, c \in EvalScores}

\* contexts: empty, of whitespace only, and with text
EvaluatorContexts ==
    {<< >>, <<"">>, <<"", "">>, <<"", "a", "noun">>,
     <<"a", "noun", "names", "a", "thing">>}

EvaluatorQueries == {<<"what", "is", "a", "noun">>, <<"what", "is", "a", "verb">>}

EvaluatorInit == Init /\ vectorstore /\ enable_guardrails

\* evaluation = self._evaluate_context(query, context)
EvaluateContext(query, ctx, resp) ==
    LET r == _evaluate_context(query, ctx, resp) IN
    /\ safe_query' = query
    /\ context' = ctx
    /\ evaluation' = r.evaluation
    /\ exception' = r.exc
    /\ calls' = EvaluationCalls("", query, r)
    /\ world' = resp
    /\ UNCHANGED <<vectorstore, enable_guardrails, metrics, pc, user_query,
                   input_check, docs, retrieval_level, was_corrected,
                   refined_query, answer, output_check, result, nqueries,
                   llm_check, threads, seen>>

EvaluatorNext ==
    \E query \in EvaluatorQueries, ctx \in EvaluatorContexts, resp \in EvaluatorResponses :
        EvaluateContext(query, ctx, resp)

EvaluatorSpec == EvaluatorInit /\ [][EvaluatorNext]_vars

(***************************************************************************)
(* query() called several times on one engine whose collaborators are      *)
(* deterministic: the index and the models are fixed when the engine is    *)
(* set up (world), and what each answers depends on the question and the   *)
(* step only.  seen keeps how each earlier call of query() ended.          *)
(***************************************************************************)
\* questions the gate admits
AnswerableQueries ==
    {<<"what", "is", "a", "noun">>, <<"", "what", "", "is", "a", "verb", "">>}

ReplayQueries == AnswerableQueries \cup {<<"steal", "answers">>}

\* what the index can hold for a question
ReplaySearches ==
    {[kind |-> "docs", docs |-> << >>],
     [kind |-> "docs", docs |-> <<Doc(<<"a", "noun", "names", "a", "thing">>, 3)>>]}

\* what the evaluator can answer for a context
ReplayEvaluations ==
    {[kind |-> "dict", d |-> [relevance_score |-> Num(70), completeness_score |-> Num(60),
                              clarity_score |-> Num(80), reasoning |-> "adequate"]],
     [kind |-> "dict", d |-> [relevance_score |-> Num(10), completeness_score |-> Num(20),
                              clarity_score |-> Num(30), reasoning |-> "unrelated"]]}

\* the levels at which the evaluation decides an escalation
EscalatingLevels == {"PRIMARY", "SECONDARY", "TERTIARY"}

Worlds ==
    [search : [AnswerableQueries -> ReplaySearches],
     eval : [AnswerableQueries -> [EscalatingLevels -> ReplayEvaluations]]]

ReplayInit ==
    /\ vectorstore = TRUE
    /\ enable_guardrails = TRUE
    /\ metrics = SafetyMetrics
    /\ pc = "idle"
    /\ user_query = << >>
    /\ input_check = NoVerdict
    /\ safe_query = << >>
    /\ docs = << >>
    /\ context = << >>
    /\ evaluation = NoEvaluation
    /\ retrieval_level = Unassigned
    /\ was_corrected = FALSE
    /\ refined_query = << >>
    /\ answer = << >>
    /\ output_check = NoVerdict
    /\ result = NoResponse
    /\ exception = ""
    /\ calls = << >>
    /\ nqueries = 0
    /\ llm_check = NoCheck
    /\ threads = [t \in Threads |-> IdleThread]
    /\ world \in Worlds
    /\ seen = << >>

\* the answers of the collaborators to the question being processed
WorldSearch ==
    IF user_query \in AnswerableQueries THEN world.search[user_query]
    ELSE [kind |-> "raise"]

WorldEvaluation(level) ==
    IF user_query \in AnswerableQueries /\ level \in EscalatingLevels
    THEN world.eval[user_query][level]
    ELSE [kind |-> "dict", d |-> [relevance_score |-> Num(0), completeness_score |-> Num(60),
                                  clarity_score |-> Num(60), reasoning |-> "partial"]]

WorldJudge == [kind |-> "text"]

WorldRewrite == [kind |-> "text", content |-> <<"", "noun", "grammar", "">>]

WorldGeneration == [kind |-> "text", content |-> <<"", "a", "noun", "names", "a", "thing", "">>]

\* how the call of query() that has just ended, ended
Outcome ==
    IF pc = "done"
    THEN [query |-> user_query, ended |-> "returned",
          retrieval_level |-> result.retrieval_level,
          context_quality |-> result.context_quality,
          was_corrected |-> result.was_corrected]
    ELSE [query |-> user_query, ended |-> "raised", retrieval_level |-> "",
          context_quality |-> "", was_corrected |-> FALSE]

\* query(q) is called again on the same engine
Ask(q) ==
    /\ nqueries < MaxReplays
    /\ StartQuery(q)
    /\ seen' = IF pc \in {"done", "raised"} THEN Append(seen, Outcome) ELSE seen

ReplayNext ==
    \/ \E q \in ReplayQueries : Ask(q)
    \/ GateIn(WorldJudge)
    \/ RetrievePrimary(WorldSearch)
    \/ EvaluatePrimary(WorldEvaluation("PRIMARY"))
    \/ RetrieveSecondary(WorldSearch)
    \/ EvaluateSecondary(WorldEvaluation("SECONDARY"))
    \/ RefineQuery(WorldRewrite)
    \/ RetrieveTertiary(WorldRewrite, WorldSearch)
    \/ EvaluateTertiary(WorldEvaluation("TERTIARY"))
    \/ RetrieveQuaternary(WorldRewrite, WorldSearch)
    \/ EvaluateQuaternary(WorldEvaluation("QUATERNARY"))
    \/ Generate(WorldGeneration)
    \/ GateOut(WorldJudge)
    \/ Assemble

ReplaySpec == ReplayInit /\ [][ReplayNext]_vars

(***************************************************************************)
(* query() with an evaluator model that is unreliable: each of its calls   *)
(* raises, answers text that is no JSON, or answers adequate scores.  An   *)
(* escalation is then always the consequence of a failed evaluation or of  *)
(* a blank context.                                                        *)
(***************************************************************************)
UnreliableEvalResponses ==
    {[kind |-> "raise"], [kind |-> "text"],
     [kind |-> "dict", d |-> [relevance_score |-> Num(70), completeness_score |-> Num(60),
                              clarity_score |-> Num(80), reasoning |-> "adequate"]]}

UnreliableNext ==
    \/ \E q \in Queries : Query(q)
    \/ \E resp \in JudgeResponses : GateIn(resp)
    \/ \E out \in SearchOutcomes : RetrievePrimary(out)
    \/ \E resp \in UnreliableEvalResponses : EvaluatePrimary(resp)
    \/ \E out \in SearchOutcomes : RetrieveSecondary(out)
    \/ \E resp \in UnreliableEvalResponses : EvaluateSecondary(resp)
    \/ \E llm \in RewriteResponses : RefineQuery(llm)
    \/ \E llm \in RewriteResponses, out \in SearchOutcomes : RetrieveTertiary(llm, out)
    \/ \E resp \in UnreliableEvalResponses : EvaluateTertiary(resp)
    \/ \E llm \in RewriteResponses, out \in SearchOutcomes : RetrieveQuaternary(llm, out)
    \/ \E resp \in UnreliableEvalResponses : EvaluateQuaternary(resp)
    \/ \E llm \in GenerationResponses : Generate(llm)
    \/ \E resp \in JudgeResponses : GateOut(resp)
    \/ Assemble

UnreliableSpec == Init /\ [][UnreliableNext]_vars

(***************************************************************************)
(* Properties                                                              *)
(***************************************************************************)
\* the positions of the call log holding a call `op` at `level`
CallsOf(op, level) ==
    {i \in 1..Len(calls) : calls[i].op = op /\ calls[i].level = level}

Invoked(op, level) == CallsOf(op, level) # {}

\* the operations that appear in the call log
OpsCalled == {calls[i].op : i \in 1..Len(calls)}

\* the levels whose retrieval strategy has been invoked for this query
LevelsRetrieved == {calls[i].level : i \in {j \in 1..Len(calls) : calls[j].op = "retrieve"}}

\* validate_input returned a verdict that rejects the query
InputRejected == input_check # NoVerdict /\ ~input_check.is_safe

\* PRIMARY retrieval has returned and its list of documents is empty
PrimaryEmpty ==
    /\ retrieval_level = "PRIMARY"
    /\ evaluation = NoEvaluation
    /\ docs = << >>

\* query() has returned a RAGResponse
Returns == pc = "done" /\ result # NoResponse

\* C1: when validate_input rejects the query, query() has returned at once: the
\* answer is the verdict's reason, the level FALLBACK, the quality POOR,
\* guardrail_passed false, and validate_input is the only call it made.
C1_RejectedInputIsTerminal ==
    InputRejected =>
        /\ Returns
        /\ result.answer = <<input_check.reason>>
        /\ result.retrieval_level = "FALLBACK"
        /\ result.context_quality = "POOR"
        /\ result.guardrail_passed = FALSE
        /\ OpsCalled = {"validate_input"}

C1_Witness ==
    /\ InputRejected
    /\ pc = "done"
    /\ input_check.blocked_category = "cheating"
    /\ result.answer = <<"Academic dishonesty attempt detected">>

\* C2: when PRIMARY retrieval returns no passages, query() has returned at once
\* with the fixed message, level FALLBACK, quality POOR and guardrail_passed
\* true; no other strategy, no evaluation, refinement, generation or output
\* validation was called.
C2_EmptyPrimaryIsTerminal ==
    PrimaryEmpty =>
        /\ Returns
        /\ result.answer = NoInformation
        /\ result.retrieval_level = "FALLBACK"
        /\ result.context_quality = "POOR"
        /\ result.guardrail_passed = TRUE
        /\ LevelsRetrieved = {"PRIMARY"}
        /\ OpsCalled \subseteq {"validate_input", "judge", "retrieve", "search"}

\* an empty PRIMARY result after a search that threw
C2_Witness ==
    /\ PrimaryEmpty
    /\ pc = "done"
    /\ Invoked("search", "PRIMARY")
    /\ result.answer = NoInformation

\* an empty PRIMARY result because no vector store is set
C2_WitnessNoStore ==
    /\ PrimaryEmpty
    /\ pc = "done"
    /\ ~vectorstore
    /\ ~Invoked("search", "PRIMARY")

\* the evaluation of the context retrieved at `level` ended with `out`
EvaluatedAs(level, out) ==
    \E i \in CallsOf("evaluate", level) : calls[i].out = out

\* the steps of query() from generation on, and its two ends
FromGeneration == {"generate", "validate_output", "assemble", "done", "raised"}

\* C3: when the PRIMARY context evaluates GOOD or EXCELLENT (needs_correction
\* false), no refinement and no SECONDARY, TERTIARY or QUATERNARY retrieval is
\* made, and the result has level PRIMARY and was_corrected false.
C3_AdequatePrimaryStops ==
    EvaluatedAs("PRIMARY", "adequate") =>
        /\ evaluation.quality_level \in {"GOOD", "EXCELLENT"}
        /\ pc \in FromGeneration
        /\ LevelsRetrieved = {"PRIMARY"}
        /\ "refine" \notin OpsCalled
        /\ "refiner" \notin OpsCalled
        /\ retrieval_level = "PRIMARY"
        /\ Returns => (result.retrieval_level = "PRIMARY" /\ ~result.was_corrected)

C3_Witness ==
    /\ Returns
    /\ EvaluatedAs("PRIMARY", "adequate")
    /\ evaluation.quality_level = "GOOD"
    /\ result.retrieval_level = "PRIMARY"

\* C4: a returned RAGResponse has was_corrected true exactly when the TERTIARY
\* strategy was invoked for the query, that is exactly when its level is
\* TERTIARY or QUATERNARY; it is false on both early exits and at the levels
\* PRIMARY and SECONDARY.
C4_CorrectedIffBeyondSecondary ==
    Returns =>
        /\ result.was_corrected <=> Invoked("retrieve", "TERTIARY")
        /\ result.was_corrected <=> result.retrieval_level \in {"TERTIARY", "QUATERNARY"}
        /\ (InputRejected \/ PrimaryEmpty) => ~result.was_corrected

C4_Witness ==
    /\ Returns
    /\ result.was_corrected
    /\ result.retrieval_level = "TERTIARY"
    /\ Invoked("retrieve", "TERTIARY")

C4_WitnessSecondary ==
    /\ Returns
    /\ ~result.was_corrected
    /\ result.retrieval_level = "SECONDARY"

\* the retrieve calls of the log, in order
RetrieveCalls == SelectSeq(calls, LAMBDA c : c.op = "retrieve")

\* the level of the last retrieval strategy attempted
LastLevelAttempted == RetrieveCalls[Len(RetrieveCalls)].level

\* C5: the retrieval_level of a returned RAGResponse is the last strategy
\* attempted, whatever that strategy found; FALLBACK is reported exactly on the
\* two early exits (input rejected, PRIMARY empty).
C5_LevelIsLastAttempted ==
    Returns =>
        IF InputRejected \/ PrimaryEmpty
        THEN result.retrieval_level = "FALLBACK"
        ELSE /\ result.retrieval_level = LastLevelAttempted
             /\ result.retrieval_level \in {"PRIMARY", "SECONDARY", "TERTIARY", "QUATERNARY"}

\* the last strategy found nothing and its level is still reported
C5_Witness ==
    /\ Returns
    /\ result.retrieval_level = "QUATERNARY"
    /\ docs = << >>
    /\ result.context_quality = "POOR"

C5_WitnessSecondaryFails ==
    /\ Returns
    /\ result.retrieval_level = "TERTIARY"
    /\ result.context_quality = "GOOD"

\* the GuardrailResult values a RAGResponse carries (its safety_check field)
VerdictsAttached(response) == {response.safety_check}

\* validate_output has returned a verdict for this query
OutputValidated == output_check # NoVerdict

C6_WitnessEarlyExit ==
    /\ Returns
    /\ PrimaryEmpty
    /\ result.safety_check = input_check

LevelOrder == <<"PRIMARY", "SECONDARY", "TERTIARY", "QUATERNARY">>

\* query() has ended, by returning or by an exception
Ended == pc \in {"done", "raised"}

\* C7: the strategies are invoked in the order PRIMARY, SECONDARY, TERTIARY,
\* QUATERNARY, each at most once, none skipped; a level after PRIMARY is
\* invoked only after the level before it was evaluated with needs_correction
\* true, and once query() has ended every level so evaluated was followed by
\* the next one.
C7_EscalationInOrder ==
    /\ Len(RetrieveCalls) <= Len(LevelOrder)
    /\ \A n \in 1..Len(RetrieveCalls) : RetrieveCalls[n].level = LevelOrder[n]
    /\ \A n \in 2..Len(LevelOrder) :
          Invoked("retrieve", LevelOrder[n]) =>
              \E i \in CallsOf("evaluate", LevelOrder[n - 1]),
                 j \in CallsOf("retrieve", LevelOrder[n]) :
                    i < j /\ calls[i].out = "needs_correction"
    /\ \A n \in 1..Len(LevelOrder) :
          Cardinality(CallsOf("evaluate", LevelOrder[n])) <= 1
    /\ Ended =>
          \A n \in 2..Len(LevelOrder) :
              EvaluatedAs(LevelOrder[n - 1], "needs_correction")
                  => Invoked("retrieve", LevelOrder[n])

C7_Witness ==
    /\ Returns
    /\ Len(RetrieveCalls) = 4
    /\ EvaluatedAs("TERTIARY", "needs_correction")
    /\ EvaluatedAs("QUATERNARY", "adequate")

C7_WitnessStopsAtSecondary ==
    /\ Returns
    /\ Len(RetrieveCalls) = 2
    /\ EvaluatedAs("PRIMARY", "needs_correction")
    /\ EvaluatedAs("SECONDARY", "adequate")

\* the QUATERNARY context has been retrieved and evaluated
QuaternaryEvaluated ==
    EvaluatedAs("QUATERNARY", "needs_correction") \/ EvaluatedAs("QUATERNARY", "adequate")

\* C8: once the QUATERNARY context has been retrieved and evaluated, query()
\* goes on to generation at level QUATERNARY whatever the evaluation says, and
\* makes no further retrieval, refinement or evaluation.
C8_QuaternaryIsLast ==
    QuaternaryEvaluated =>
        /\ retrieval_level = "QUATERNARY"
        /\ pc \in FromGeneration
        /\ pc # "generate" => Invoked("generate", "QUATERNARY")
        /\ \A i \in CallsOf("evaluate", "QUATERNARY") :
              \A j \in (i + 1)..Len(calls) :
                  /\ calls[j].op \in {"evaluator", "generate", "validate_output", "judge"}
                  /\ calls[j].op = "evaluator" => j = i + 1
        /\ Returns => result.retrieval_level = "QUATERNARY"

\* generation after a QUATERNARY context that is empty and POOR
C8_Witness ==
    /\ Returns
    /\ EvaluatedAs("QUATERNARY", "needs_correction")
    /\ context = << >>
    /\ result.context_quality = "POOR"
    /\ result.retrieval_level = "QUATERNARY"

C8_WitnessFair ==
    /\ Returns
    /\ EvaluatedAs("QUATERNARY", "needs_correction")
    /\ result.context_quality = "FAIR"
    /\ result.retrieval_level = "QUATERNARY"

\* C9: query() always returns a RAGResponse: no exception leaves it, whatever
\* the collaborators do.
C9_NoExceptionPropagates ==
    /\ pc # "raised"
    /\ exception = ""

\* C10: a query that has ended without generation was rejected by the input
\* gate or found PRIMARY empty; every other query that has ended went through
\* generation and output validation and returned a result.
C10_OnlyTwoEarlyExits ==
    (Ended /\ ~InputRejected /\ ~PrimaryEmpty) =>
        /\ Returns
        /\ "generate" \in OpsCalled
        /\ "validate_output" \in OpsCalled

\* the answer the generation step produced: the text handed to validate_output
GeneratedAnswer == calls[CHOOSE i \in 1..Len(calls) : calls[i].op = "validate_output"].arg

\* the tokens of a text
TokensOf(text) == {text[i] : i \in 1..Len(text)}

OutputRejected == OutputValidated /\ ~output_check.is_safe

\* C11: when validate_output does not admit the generated answer, the answer
\* of the returned RAGResponse is the fixed replacement text and holds no part
\* of the generated answer, guardrail_passed is false, and the validate_output
\* call leaves the gate's metrics and rejection log as they were.
C11_RejectedAnswerIsReplaced ==
    /\ [](Returns /\ OutputRejected =>
            /\ result.answer = DifferentResponse
            /\ result.answer # GeneratedAnswer
            /\ TokensOf(result.answer) \cap TokensOf(GeneratedAnswer) = {}
            /\ result.guardrail_passed = FALSE)
    /\ [][pc = "validate_output" => metrics' = metrics]_vars

\* an answer the Content Filter rejected has been replaced
C11_Witness ==
    /\ Returns
    /\ OutputRejected
    /\ output_check.safety_level = "BLOCKED"
    /\ GeneratedAnswer = <<"you", "could", "kill", "time">>
    /\ result.answer = DifferentResponse

\* an answer over the length limit has been replaced
C11_WitnessTooLong ==
    /\ Returns
    /\ OutputRejected
    /\ output_check.safety_level = "WARNING"
    /\ Len(GeneratedAnswer) > MAX_RESPONSE_LENGTH
    /\ result.answer = DifferentResponse

\* the label the quality tiers stand for
LabelOfTier(tier) ==
    IF tier = "EXCELLENT" THEN "High"
    ELSE IF tier = "GOOD" THEN "Good"
    ELSE IF tier = "FAIR" THEN "Medium"
    ELSE "Low"

\* C12 as stated: the confidence label of every returned RAGResponse is the
\* label of its quality tier.
C12_LabelFromTierOnEveryExit ==
    Returns => result.confidence = LabelOfTier(result.context_quality)

\* C12: on the full path and on the empty-PRIMARY exit the confidence label is
\* the label of the result's quality tier, which on the full path is the tier
\* of the final evaluation; a result returned for a rejected input has tier
\* POOR and the label "N/A".
C12_LabelFromTierUnlessRejected ==
    Returns =>
        /\ InputRejected => result.confidence = "N/A" /\ result.context_quality = "POOR"
        /\ ~InputRejected => result.confidence = LabelOfTier(result.context_quality)
        /\ PrimaryEmpty => result.confidence = "Low"
        /\ OutputValidated => result.context_quality = evaluation.quality_level

C12_Witness ==
    /\ Returns
    /\ OutputValidated
    /\ evaluation.quality_level = "GOOD"
    /\ result.confidence = "Good"

C12_WitnessRejected ==
    /\ Returns
    /\ InputRejected
    /\ result.confidence = "N/A"

(***************************************************************************)
(* Properties of the Safety Gate (GateSpec)                                *)
(***************************************************************************)
\* the latest call on the gate was validate_input and it returned a verdict
InputValidated == input_check # NoVerdict

\* the steps of validate_input that can reject a text, in the order of the
\* specification, and the category and reason each gives its verdict
RejectingSteps ==
    <<[name |-> "empty", category |-> "off_topic", reason |-> "Empty query"],
      [name |-> "length", category |-> "off_topic", reason |-> "Query too long"],
      [name |-> "unsafe-topic", category |-> "inappropriate",
       reason |-> "Contains inappropriate content"],
      [name |-> "personal-data", category |-> "personal_info",
       reason |-> "Contains personal information"],
      [name |-> "academic-dishonesty", category |-> "cheating",
       reason |-> "Academic dishonesty attempt detected"],
      [name |-> "off-topic", category |-> "off_topic",
       reason |-> "Query appears off-topic for educational assistant"]>>

\* the text is rejected by the step of that name, taken on its own
StepRejects(name, text) ==
    CASE name = "empty" -> IsBlank(text)
      [] name = "length" -> Len(text) > MAX_QUERY_LENGTH
      [] name = "unsafe-topic" -> MatchesInappropriate(text)
      [] name = "personal-data" -> MatchesPersonalInfo(text)
      [] name = "academic-dishonesty" -> MatchesCheating(text)
      [] name = "off-topic" -> MatchesOffTopic(text)

\* the steps that reject the text, by position
StepsRejecting(text) ==
    {i \in DOMAIN RejectingSteps : StepRejects(RejectingSteps[i].name, text)}

\* the first step that rejects the text
FirstRejecting(text) ==
    CHOOSE i \in StepsRejecting(text) : \A j \in StepsRejecting(text) : i <= j

\* C13: validate_input tries empty, over-length, then the Content Filter's
\* families unsafe-topic, personal-data, academic-dishonesty, off-topic; the
\* first step that rejects gives the verdict its category and reason, and
\* _llm_based_check (the Policy Judge) is called exactly for a text no step
\* rejected on a gate whose safety subsystem is enabled.
C13_FirstRejectingStepWins ==
    InputValidated =>
        /\ StepsRejecting(user_query) # {} =>
              /\ input_check.safety_level = "BLOCKED"
              /\ input_check.blocked_category =
                    RejectingSteps[FirstRejecting(user_query)].category
              /\ input_check.reason = RejectingSteps[FirstRejecting(user_query)].reason
        /\ llm_check.called <=> (StepsRejecting(user_query) = {} /\ enable_guardrails)
        /\ calls[Len(calls)].op = "judge" => llm_check.called

\* a text that two families match is rejected by the earlier one
C13_Witness ==
    /\ InputValidated
    /\ user_query = <<"kill", "a@b.com">>
    /\ {3, 4} \subseteq StepsRejecting(user_query)
    /\ input_check.blocked_category = "inappropriate"
    /\ ~llm_check.called

\* a text no step rejects reaches the Policy Judge step on an enabled gate
C13_WitnessJudgeStep ==
    /\ InputValidated
    /\ StepsRejecting(user_query) = {}
    /\ enable_guardrails
    /\ llm_check.called

\* a whitespace-only text over the length limit is rejected as empty
C13_WitnessBlankAndLong ==
    /\ InputValidated
    /\ {1, 2} \subseteq StepsRejecting(user_query)
    /\ input_check.reason = "Empty query"

\* C14 as stated: every text that a personal-data pattern matches is rejected
\* with category personal-info, whatever surrounds the match.
C14_PersonalDataAlwaysPersonalInfo ==
    (InputValidated /\ MatchesPersonalInfo(user_query)) =>
        /\ input_check.safety_level = "BLOCKED"
        /\ input_check.blocked_category = "personal_info"

\* C14: every text that a personal-data pattern matches is rejected with a
\* BLOCKED verdict, whatever surrounds the match; the category is
\* personal-info unless the text is over the length limit (off-topic) or an
\* unsafe-topic pattern matches it too (inappropriate).
C14_PersonalDataAlwaysBlocked ==
    (InputValidated /\ MatchesPersonalInfo(user_query)) =>
        /\ ~input_check.is_safe
        /\ input_check.safety_level = "BLOCKED"
        /\ input_check.blocked_category =
              IF Len(user_query) > MAX_QUERY_LENGTH THEN "off_topic"
              ELSE IF MatchesInappropriate(user_query) THEN "inappropriate"
              ELSE "personal_info"

\* an e-mail address between other words, padded with whitespace
C14_Witness ==
    /\ InputValidated
    /\ user_query = <<"", "see", "a@b.com", "", "thanks", "">>
    /\ input_check.blocked_category = "personal_info"
    /\ input_check.safety_level = "BLOCKED"

\* each of the five patterns rejects a text on its own
C14_WitnessPhone == InputValidated /\ user_query = <<"555-123-4567">> /\ ~input_check.is_safe
C14_WitnessAddress ==
    /\ InputValidated
    /\ user_query = <<"call", "me", "at", "12", "main", "street">>
    /\ input_check.blocked_category = "personal_info"

\* a personal-data match in a text over the length limit
C14_WitnessOtherCategory ==
    /\ InputValidated
    /\ MatchesPersonalInfo(user_query)
    /\ Len(user_query) > MAX_QUERY_LENGTH
    /\ input_check.blocked_category = "off_topic"

\* C15: every query that contains an academic-dishonesty phrase is rejected by
\* validate_input with a BLOCKED verdict of category cheating, and no
\* retrieval strategy is invoked for it.
C15_CheatingPhraseBlockedAsCheating ==
    (InputValidated /\ MatchesCheating(user_query)) =>
        /\ input_check.safety_level = "BLOCKED"
        /\ input_check.blocked_category = "cheating"
        /\ LevelsRetrieved = {}

\* C16: a text that is not blank and is longer than MAX_QUERY_LENGTH gets a
\* BLOCKED verdict whose sanitized_text is the first MAX_QUERY_LENGTH
\* characters of the text; neither the Content Filter nor the Policy Judge is
\* consulted: the verdict is the length check's also for a text the filter
\* would reject, nothing is counted as blocked or logged, and
\* _llm_based_check is not called.
C16_OverLengthIsTruncated ==
    /\ [](InputValidated /\ ~IsBlank(user_query) /\ Len(user_query) > MAX_QUERY_LENGTH =>
            /\ input_check.safety_level = "BLOCKED"
            /\ ~input_check.is_safe
            /\ Len(input_check.sanitized_text) = MAX_QUERY_LENGTH
            /\ input_check.sanitized_text = SubSeq(user_query, 1, MAX_QUERY_LENGTH)
            /\ input_check.reason = "Query too long"
            /\ input_check.blocked_category = "off_topic"
            /\ ~llm_check.called
            /\ calls[Len(calls)].op # "judge")
    /\ [][(InputValidated' /\ calls' # calls /\ ~IsBlank(user_query')
              /\ Len(user_query') > MAX_QUERY_LENGTH) =>
            /\ metrics'.blocked_queries = metrics.blocked_queries
            /\ metrics'.category_counts = metrics.category_counts
            /\ metrics'.recent_blocks = metrics.recent_blocks]_vars

\* an over-long text that the Content Filter would reject as inappropriate
C16_Witness ==
    /\ InputValidated
    /\ user_query = <<"kill">> \o LongQuery
    /\ MatchesInappropriate(user_query)
    /\ input_check.reason = "Query too long"
    /\ Len(input_check.sanitized_text) = MAX_QUERY_LENGTH

\* a text one character over the limit
C16_WitnessOneOver ==
    /\ InputValidated
    /\ Len(user_query) = MAX_QUERY_LENGTH + 1
    /\ ~IsBlank(user_query)
    /\ Len(input_check.sanitized_text) = MAX_QUERY_LENGTH

\* a text of exactly the limit is not rejected for its length
C16_WitnessAtLimit ==
    /\ InputValidated
    /\ Len(user_query) = MAX_QUERY_LENGTH
    /\ input_check.is_safe

\* C17: when the Policy Judge's response cannot be used during input
\* validation (the call fails or its content does not parse, so that
\* _llm_based_check takes its except branch), validate_input returns an admit
\* verdict whose confidence is 0.5.
C17_FailOpenWithHalfConfidence ==
    (InputValidated /\ llm_check.called /\ llm_check.failed) =>
        /\ input_check.is_safe
        /\ input_check.safety_level = "SAFE"
        /\ input_check.confidence_score = 50

\* the behaviours of the Policy Judge that reject: is_safe is false
JudgeRejections == {resp \in JudgeResponses : resp.kind = "dict" /\ ~resp.d.is_safe}

\* the text passes the empty, length and Content Filter checks
PassesFilter(text) ==
    ~IsBlank(text) /\ Len(text) <= MAX_QUERY_LENGTH /\ _rule_based_check(text).safe

\* C18: for a text the Content Filter passed on an enabled gate, whatever
\* rejection the Policy Judge gives (is_safe false, any category),
\* validate_input returns, without raising, a BLOCKED verdict with the
\* judge's category and reason, and counts the query as blocked.
C18_JudgeRejectionBlocks ==
    (InputValidated /\ enable_guardrails /\ PassesFilter(user_query)) =>
        \A resp \in JudgeRejections :
            LET r == validate_input(user_query, SafetyMetrics, enable_guardrails, resp)
            IN  /\ r.exc = ""
                /\ r.verdict.safety_level = "BLOCKED"
                /\ r.verdict.blocked_category = resp.d.category
                /\ r.verdict.reason = resp.d.reason
                /\ r.metrics.blocked_queries = 1

\* the latest call on the gate was validate_output and its verdict does not
\* admit the response
OutputNotAdmitted == OutputValidated /\ ~output_check.is_safe

\* text starts with the tokens of prefix
IsPrefixOf(prefix, text) ==
    Len(prefix) <= Len(text) /\ SubSeq(text, 1, Len(prefix)) = prefix

\* text begins with the first n characters of the offending text
BeginsWithFirst(n, offending, text) ==
    n <= Len(offending) /\ IsPrefixOf(SubSeq(offending, 1, n), text)

\* C19 as stated: every verdict of validate_output that does not admit has the
\* fixed safe-refusal message as its sanitized text, never the offending text
\* or a prefix of it.
C19_EveryRejectionIsRefusal ==
    OutputNotAdmitted =>
        /\ output_check.sanitized_text = SafeRefusal
        /\ \A n \in 1..Len(answer) :
              ~BeginsWithFirst(n, answer, output_check.sanitized_text)

\* C19: every BLOCKED verdict of validate_output has the fixed safe-refusal
\* message as its sanitized text and nothing of the offending text; the
\* WARNING verdict, given exactly to a response over the length limit, has the
\* first MAX_RESPONSE_LENGTH characters of the response followed by "...".
C19_BlockedIsRefusalWarningIsPrefix ==
    OutputNotAdmitted =>
        /\ output_check.safety_level \in {"BLOCKED", "WARNING"}
        /\ output_check.safety_level = "WARNING" <=> Len(answer) > MAX_RESPONSE_LENGTH
        /\ output_check.safety_level = "BLOCKED" =>
              /\ output_check.sanitized_text = SafeRefusal
              /\ TokensOf(output_check.sanitized_text) \cap TokensOf(answer) = {}
        /\ output_check.safety_level = "WARNING" =>
              /\ output_check.sanitized_text =
                    SubSeq(answer, 1, MAX_RESPONSE_LENGTH) \o <<"...">>
              /\ BeginsWithFirst(MAX_RESPONSE_LENGTH, answer,
                                 output_check.sanitized_text)

\* a response the Content Filter rejects
C19_Witness ==
    /\ OutputNotAdmitted
    /\ answer = <<"you", "could", "kill", "time">>
    /\ output_check.safety_level = "BLOCKED"
    /\ output_check.sanitized_text = SafeRefusal

\* an over-long response: its verdict carries the offending words
C19_WitnessTooLong ==
    /\ OutputNotAdmitted
    /\ output_check.safety_level = "WARNING"
    /\ "kill" \in TokensOf(output_check.sanitized_text)

\* the validate_input calls made on the instance whose outcome is in outcomes
InputCalls(outcomes) ==
    {i \in 1..Len(calls) : calls[i].op = "validate_input" /\ calls[i].out \in outcomes}

\* the validate_input calls rejected as empty or as over-length
RejectedBeforeFilter ==
    {i \in InputCalls({"BLOCKED"}) :
        IsBlank(calls[i].arg) \/ Len(calls[i].arg) > MAX_QUERY_LENGTH}

\* C20 as stated: the counters the accessor reports are the number of
\* validate_input calls, of admit verdicts and of BLOCKED verdicts.
C20_CountersMatchVerdicts ==
    LET reported == get_metrics(metrics) IN
    /\ reported.total_queries = Cardinality(InputCalls({"SAFE", "BLOCKED", "raise"}))
    /\ reported.safe_queries = Cardinality(InputCalls({"SAFE"}))
    /\ reported.blocked_queries = Cardinality(InputCalls({"BLOCKED"}))

\* C20: after any sequence of calls on one gate instance the accessor reports
\* total_queries = the validate_input calls made, safe_queries = those that
\* returned an admit verdict, blocked_queries = those that returned a BLOCKED
\* verdict from the Content Filter or the Policy Judge; a call rejected as
\* empty or over-length returns BLOCKED but is counted in total_queries only.
C20_CountersMatchFilterVerdicts ==
    LET reported == get_metrics(metrics) IN
    /\ reported.total_queries = Cardinality(InputCalls({"SAFE", "BLOCKED", "raise"}))
    /\ reported.safe_queries = Cardinality(InputCalls({"SAFE"}))
    /\ reported.blocked_queries =
          Cardinality(InputCalls({"BLOCKED"}) \ RejectedBeforeFilter)

\* two calls on one instance: one rejected by the Content Filter, one admitted
C20_Witness ==
    /\ Cardinality(InputCalls({"BLOCKED"}) \ RejectedBeforeFilter) = 1
    /\ Cardinality(InputCalls({"SAFE"})) = 1
    /\ get_metrics(metrics).total_queries = 2
    /\ get_metrics(metrics).safe_queries = 1
    /\ get_metrics(metrics).blocked_queries = 1

\* an empty and an over-length query: two BLOCKED verdicts, none counted
C20_WitnessNotCounted ==
    /\ Cardinality(RejectedBeforeFilter) = 2
    /\ get_metrics(metrics).total_queries = 2
    /\ get_metrics(metrics).blocked_queries = 0

\* the rejection entries in order of occurrence: one for each validate_input
\* call the Content Filter rejected
RejectionsInOrder ==
    LET RECURSIVE Entries(_)
        Entries(n) ==
            IF n = 0 THEN << >>
            ELSE IF calls[n].op = "validate_input" /\ ~_rule_based_check(calls[n].arg).safe
                    /\ n \notin RejectedBeforeFilter
                 THEN Append(Entries(n - 1),
                             BlockEntry(calls[n].arg,
                                        _rule_based_check(calls[n].arg).category,
                                        _rule_based_check(calls[n].arg).reason))
                 ELSE Entries(n - 1)
    IN  Entries(Len(calls))

\* C21: the gate holds at most the last 10 rejection entries, and the
\* accessor reports at most 10 entries, the most recent rejections in order
\* of occurrence.
C21_RejectionLogBounded ==
    /\ Len(metrics.recent_blocks) <= 10
    /\ Len(get_metrics(metrics).recent_blocks) <= 10
    /\ get_metrics(metrics).recent_blocks = LastN(RejectionsInOrder, 10)
    /\ metrics.recent_blocks = LastN(RejectionsInOrder, 10)

\* every concurrent call of validate_input has returned
AllReturned == \A t \in Threads : threads[t].pc = "done"

\* the requests whose call took the branch
Took(branch) == {t \in Threads : threads[t].pc # "idle" /\ threads[t].branch = branch}

\* C22: once the concurrent calls of validate_input have all returned,
\* total_queries has grown by the number of calls, and safe_queries,
\* blocked_queries and each category count by the number of calls that took
\* the branch: no update is lost, whatever the interleaving.
C22_NoUpdateLost ==
    AllReturned =>
        /\ metrics.total_queries = NumThreads
        /\ metrics.safe_queries = Cardinality(Took("safe"))
        /\ metrics.blocked_queries = Cardinality(Took("blocked"))
        /\ \A c \in ContentCategoryValues :
              Get(metrics.category_counts, c, 0) =
                  Cardinality({t \in Took("blocked") : threads[t].category = c})

\* the step is a call of the gate operation op
GateStep(op) == Len(calls') > Len(calls) /\ calls'[Len(calls) + 1].op = op

C23_WitnessBlocked ==
    /\ OutputValidated
    /\ output_check.safety_level = "BLOCKED"
    /\ metrics.total_queries = 1
    /\ metrics.safe_queries = 1
    /\ metrics.blocked_queries = 0

\* _evaluate_context has been called
ContextEvaluated == Invoked("evaluate", "")

\* C24: on a context that is empty or of whitespace only, _evaluate_context
\* returns the three scores 0, the tier POOR and needs_correction true,
\* whatever the query, and the evaluator model is not invoked.
C24_BlankContextIsPoor ==
    (ContextEvaluated /\ IsBlank(context)) =>
        /\ exception = ""
        /\ evaluation =
              ContextEvaluation(0, 0, 0, "POOR", TRUE, "No context retrieved")
        /\ ~Invoked("evaluator", "")

\* a context of two whitespace characters has been evaluated
C24_Witness ==
    /\ ContextEvaluated
    /\ context = <<"", "">>
    /\ safe_query = <<"what", "is", "a", "verb">>
    /\ evaluation.quality_level = "POOR"

\* the tier of three scores whose mean is taken exactly, with inclusive
\* lower bounds
TierOfMean(a, b, c) ==
    IF a + b + c >= 3 * 80 THEN "EXCELLENT"
    ELSE IF a + b + c >= 3 * 60 THEN "GOOD"
    ELSE IF a + b + c >= 3 * 40 THEN "FAIR"
    ELSE "POOR"

\* C25: the tier of every ContextEvaluation is the tier of the mean of its
\* three scores, with inclusive lower bounds 0.8, 0.6 and 0.4 (a mean of
\* exactly 0.4, 0.6 or 0.8 is in the higher tier), and needs_correction is
\* true exactly for FAIR and POOR.
C25_TierIsFunctionOfMean ==
    (ContextEvaluated /\ exception = "") =>
        /\ evaluation.quality_level =
              TierOfMean(evaluation.relevance_score, evaluation.completeness_score,
                         evaluation.clarity_score)
        /\ evaluation.needs_correction <=> evaluation.quality_level \in {"FAIR", "POOR"}

\* the earlier calls of query() that were given the question of this one
SeenBefore == {i \in 1..Len(seen) : seen[i].query = user_query}

\* C26: with an unchanged index and unchanged model responses, a call of
\* query() returns the retrieval_level, the quality tier and the was_corrected
\* flag that every earlier call with the same question returned, whatever
\* other questions were asked in between and whatever the gate's metrics
\* have accumulated.
C26_SameQuerySameEscalation ==
    Returns =>
        \A i \in SeenBefore :
            /\ seen[i].ended = "returned"
            /\ seen[i].retrieval_level = result.retrieval_level
            /\ seen[i].context_quality = result.context_quality
            /\ seen[i].was_corrected = result.was_corrected

\* a question has been answered a second time after escalation, with another
\* question rejected in between
C26_Witness ==
    /\ Returns
    /\ Len(seen) = 2
    /\ seen[1].query = user_query
    /\ seen[2].query = <<"steal", "answers">>
    /\ result.retrieval_level = "TERTIARY"
    /\ result.was_corrected
    /\ metrics.total_queries = 3
    /\ metrics.blocked_queries = 1

\* the positions of the calls of op in the log, whatever their level
CallsTo(op) == {i \in 1..Len(calls) : calls[i].op = op}

\* call i comes straight after the SECONDARY evaluation returned
\* needs_correction (only that evaluation's model call lies between)
FollowsInadequateSecondary(i) ==
    \E j \in CallsOf("evaluate", "SECONDARY") :
        /\ j < i
        /\ calls[j].out = "needs_correction"
        /\ \A k \in (j + 1)..(i - 1) : calls[k].op = "evaluator"

\* C27: _refine_query is called at most once per query, only straight after
\* the SECONDARY evaluation returned needs_correction true and before the
\* TERTIARY retrieval (which is never made without it); it is given the
\* sanitized query and the SECONDARY evaluation.
C27_RefinedOnceBetweenSecondaryAndTertiary ==
    /\ Cardinality(CallsTo("refine")) <= 1
    /\ Cardinality(CallsTo("refiner")) <= 1
    /\ \A i \in CallsTo("refine") :
          /\ FollowsInadequateSecondary(i)
          /\ calls[i].arg = safe_query
          /\ calls[i].level = "SECONDARY"
          /\ \A j \in CallsOf("retrieve", "TERTIARY") : i < j
    /\ Invoked("retrieve", "TERTIARY") => CallsTo("refine") # {}
    /\ pc = "retrieve_tertiary" =>
          /\ CallsTo("refine") # {}
          /\ retrieval_level = "SECONDARY"
          /\ evaluation.needs_correction

\* a query that was sanitized has been refined and TERTIARY retrieval made
C27_Witness ==
    /\ CallsTo("refine") # {}
    /\ user_query # safe_query
    /\ refined_query # safe_query
    /\ Invoked("retrieve", "TERTIARY")
    /\ Returns

\* the refiner's model call failed
RefinerFailed == \E i \in CallsTo("refiner") : calls[i].out = "raise"

\* C28: when the refiner's model call fails, _refine_query returns the query
\* it was given and does not raise: query() goes on to TERTIARY retrieval,
\* which is made with the original (sanitized) query.
C28_FailedRefinerKeepsQuery ==
    RefinerFailed =>
        /\ refined_query = safe_query
        /\ \A i \in CallsTo("refiner") : i = Len(calls) => pc = "retrieve_tertiary"
        /\ pc \in {"done", "raised"} => Invoked("retrieve", "TERTIARY")
        /\ \A j \in CallsOf("retrieve", "TERTIARY") : calls[j].arg = safe_query

\* the refiner failed and TERTIARY retrieval ran with the original query
C28_Witness ==
    /\ RefinerFailed
    /\ safe_query # << >>
    /\ \E j \in CallsOf("search", "TERTIARY") : TRUE
    /\ Returns
    /\ result.retrieval_level = "TERTIARY"

\* C29: PRIMARY and SECONDARY retrieval and evaluation are given the sanitized
\* original query; TERTIARY and QUATERNARY retrieval and evaluation are given
\* the refined query, the same one for both: the refiner is called once.
C29_RefinedQueryFromTertiaryOn ==
    /\ \A i \in CallsTo("retrieve") \cup CallsTo("evaluate") :
          calls[i].arg = IF calls[i].level \in {"PRIMARY", "SECONDARY"}
                         THEN safe_query ELSE refined_query
    /\ \A i \in CallsTo("retrieve") \cup CallsTo("evaluate") :
          calls[i].level \in {"TERTIARY", "QUATERNARY"} =>
              /\ Cardinality(CallsTo("refiner")) = 1
              /\ \A j \in CallsTo("refiner") : j < i

\* QUATERNARY has been evaluated with a refined query that differs from the
\* original one
C29_Witness ==
    /\ Invoked("evaluate", "QUATERNARY")
    /\ Invoked("evaluate", "TERTIARY")
    /\ refined_query = <<"noun", "grammar">>
    /\ refined_query # safe_query
    /\ Returns

\* C30 as stated: when the TERTIARY context is adequate the answer is
\* generated from the refined query, not the original one.
C30_GeneratedFromRefinedQuery ==
    EvaluatedAs("TERTIARY", "adequate") =>
        \A i \in CallsTo("generate") : calls[i].arg = refined_query

\* C30: when the TERTIARY context is adequate, no QUATERNARY retrieval is
\* made and the answer is generated at level TERTIARY from the context of the
\* TERTIARY retrieval, which was made with the refined query, and from the
\* sanitized original query; the result has level TERTIARY.
C30_AdequateTertiaryStops ==
    EvaluatedAs("TERTIARY", "adequate") =>
        /\ ~Invoked("retrieve", "QUATERNARY")
        /\ pc \in FromGeneration
        /\ retrieval_level = "TERTIARY"
        /\ was_corrected
        /\ \A j \in CallsOf("retrieve", "TERTIARY") : calls[j].arg = refined_query
        /\ \A i \in CallsTo("generate") :
              /\ calls[i].level = "TERTIARY"
              /\ calls[i].arg = safe_query
        /\ Returns => /\ result.retrieval_level = "TERTIARY"
                      /\ result.was_corrected

\* an answer has been generated after an adequate TERTIARY evaluation, with a
\* refined query that differs from the original one
C30_Witness ==
    /\ EvaluatedAs("TERTIARY", "adequate")
    /\ CallsTo("generate") # {}
    /\ refined_query # safe_query
    /\ Returns

\* the strategy of `level` was invoked and failed inside: the vector store is
\* absent, or its expansion call failed (so that it made no search)
StrategyFailedAt(level) ==
    /\ Invoked("retrieve", level)
    /\ \/ ~vectorstore
       \/ Invoked("expand", level) /\ ~Invoked("search", level)

\* the strategy of `level` is the last one invoked so far and its result has
\* not been evaluated yet
JustRetrieved(level) ==
    /\ RetrieveCalls # << >>
    /\ LastLevelAttempted = level
    /\ ~Invoked("evaluate", level)

\* C31 as stated: a strategy that failed is reported at its assigned level,
\* whichever strategy it is.
C31_FailedStrategyReportedAtItsLevel ==
    (Returns /\ RetrieveCalls # << >> /\ StrategyFailedAt(LastLevelAttempted)) =>
        result.retrieval_level = LastLevelAttempted

\* C31: a retrieval strategy never propagates a failure inside it and never
\* retries: each invocation makes at most one expansion call and at most one
\* search; a strategy that failed returns no documents and an empty context
\* (its evaluation then needs correction without an evaluator call); a failed
\* SECONDARY, TERTIARY or QUATERNARY strategy is reported at its own level,
\* while a failed PRIMARY strategy ends the query at level FALLBACK.
C31_StrategiesCatchFailures ==
    /\ \A level \in RetrievalLevels :
          /\ Cardinality(CallsOf("retrieve", level)) <= 1
          /\ Cardinality(CallsOf("search", level)) <= 1
          /\ Cardinality(CallsOf("expand", level)) <= 1
          /\ Invoked("search", level) \/ Invoked("expand", level)
                 => Invoked("retrieve", level)
    /\ pc = "raised" => calls[Len(calls)].op \notin {"retrieve", "expand", "search"}
    /\ \A level \in RetrievalLevels :
          StrategyFailedAt(level) =>
              /\ JustRetrieved(level) => docs = << >> /\ context = << >>
              /\ ~Invoked("evaluator", level)
              /\ \A i \in CallsOf("evaluate", level) : calls[i].out = "needs_correction"
    /\ (Returns /\ RetrieveCalls # << >> /\ StrategyFailedAt(LastLevelAttempted)) =>
          result.retrieval_level =
              IF LastLevelAttempted = "PRIMARY" THEN "FALLBACK" ELSE LastLevelAttempted

\* the expansion call of the QUATERNARY strategy failed and the result is
\* reported at level QUATERNARY
C31_Witness ==
    /\ Returns
    /\ vectorstore
    /\ StrategyFailedAt("QUATERNARY")
    /\ result.retrieval_level = "QUATERNARY"
    /\ result.context_quality = "POOR"

\* the expansion call of the TERTIARY strategy failed and QUATERNARY found a
\* context
C31_WitnessTertiaryFails ==
    /\ Returns
    /\ StrategyFailedAt("TERTIARY")
    /\ Invoked("search", "QUATERNARY")
    /\ docs # << >>

\* the evaluator model call raised, or answered text that json.loads rejects
EvaluatorResponseFailed == world.kind \in {"raise", "text"}

\* C32: when the evaluator model call fails or its response cannot be parsed
\* as JSON, for a context that is not blank, _evaluate_context returns
\* relevance, completeness and clarity 0.5 with the reasoning "Evaluation
\* parsing failed", and raises nothing.
C32_ParseFailureDefaultsToHalf ==
    (ContextEvaluated /\ ~IsBlank(context) /\ EvaluatorResponseFailed) =>
        /\ exception = ""
        /\ evaluation.relevance_score = 50
        /\ evaluation.completeness_score = 50
        /\ evaluation.clarity_score = 50
        /\ evaluation.reasoning = "Evaluation parsing failed"

\* the evaluator answered text that is no JSON for a context with text
C32_Witness ==
    /\ ContextEvaluated
    /\ context = <<"", "a", "noun">>
    /\ world.kind = "text"
    /\ Invoked("evaluator", "")
    /\ evaluation.reasoning = "Evaluation parsing failed"

\* the evaluator model call raised
C32_WitnessCallFails ==
    /\ ContextEvaluated
    /\ ~IsBlank(context)
    /\ world.kind = "raise"
    /\ evaluation.relevance_score = 50

\* C33: every ContextEvaluation has its relevance, completeness and clarity
\* within [0, 1] (0..100 hundredths), whatever the evaluator model answers, so
\* that the completeness_score and specificity_score of a result, which are
\* the evaluation's completeness and relevance as percentages, are within
\* 0..100.
C33_ScoresWithinUnitInterval ==
    (ContextEvaluated /\ exception = "") =>
        /\ evaluation.relevance_score \in 0..100
        /\ evaluation.completeness_score \in 0..100
        /\ evaluation.clarity_score \in 0..100

\* the calls of query() appear in the log in the order of its steps
StepsInOrder ==
    /\ calls # << >> =>
          /\ calls[1].op = "validate_input"
          /\ Cardinality(CallsTo("validate_input")) = 1
    /\ \A i \in CallsTo("retrieve") :
          /\ input_check # NoVerdict
          /\ input_check.is_safe
          /\ safe_query = input_check.sanitized_text
          /\ calls[i].arg \in {safe_query, refined_query}
          /\ calls[i].arg # safe_query => \E j \in CallsTo("refine") : j < i
    /\ \A i \in CallsTo("evaluate") :
          \E j \in CallsOf("retrieve", calls[i].level) :
              /\ j < i
              /\ \A k \in (j + 1)..(i - 1) :
                    calls[k].op \in {"expand", "search"} /\ calls[k].level = calls[i].level
    /\ Cardinality(CallsTo("generate")) <= 1
    /\ \A g \in CallsTo("generate") :
          /\ \A i \in CallsTo("retrieve") \cup CallsTo("evaluate") \cup CallsTo("refine") :
                i < g
          /\ calls[g - 1].op \in {"evaluate", "evaluator"}
          /\ calls[g - 1].level = calls[g].level
          /\ calls[g].level = LastLevelAttempted
    /\ Cardinality(CallsTo("validate_output")) <= 1
    /\ \A v \in CallsTo("validate_output") : v > 1 /\ calls[v - 1].op = "generate"
    /\ (Returns /\ ~InputRejected /\ ~PrimaryEmpty) =>
          /\ Cardinality(CallsTo("generate")) = 1
          /\ Cardinality(CallsTo("validate_output")) = 1

\* the generation step leaves the context of the last retrieval as it is,
\* and the output validation step is given the answer that was generated
StepsUseEarlierResults ==
    /\ (pc = "generate" /\ pc' # "generate") => context' = context /\ docs' = docs
    /\ (pc = "validate_output" /\ pc' # "validate_output") =>
          /\ calls'[Len(calls) + 1].op = "validate_output"
          /\ calls'[Len(calls) + 1].arg = answer

\* C34: within one query the steps are sequential: validate_input comes first
\* and once; every retrieval is given the sanitized query or its refinement;
\* each evaluation comes straight after the retrieval of its level; generation
\* runs once, after the last evaluation, on the context of the last retrieval;
\* validate_output runs once, straight after generation, on the generated
\* answer.
C34_StepsAreSequential == []StepsInOrder /\ [][StepsUseEarlierResults]_vars

\* a query that was sanitized went through the four strategies, generation
\* and output validation
C34_Witness ==
    /\ Returns
    /\ user_query # safe_query
    /\ Len(RetrieveCalls) = 4
    /\ CallsTo("generate") # {}
    /\ CallsTo("validate_output") # {}

\* query() has returned from its full path (neither early exit)
ReturnsFromFullPath == Returns /\ ~InputRejected /\ ~PrimaryEmpty

\* the evaluations made so far, in order
EvaluateCalls == SelectSeq(calls, LAMBDA c : c.op = "evaluate")

\* the result is built from docs and evaluation, and these are the passages
\* and the evaluation of the last strategy attempted
ResultFromLastRetrieval ==
    ReturnsFromFullPath =>
        /\ result.retrieval_level = LastLevelAttempted
        /\ EvaluateCalls[Len(EvaluateCalls)].level = LastLevelAttempted
        /\ (EvaluateCalls[Len(EvaluateCalls)].out = "needs_correction")
              <=> evaluation.needs_correction
        /\ result.context_quality = evaluation.quality_level
        /\ result.completeness_score = evaluation.completeness_score
        /\ result.specificity_score = evaluation.relevance_score
        /\ result.sources = SourcesOf(docs)
        /\ StrategyFailedAt(LastLevelAttempted) =>
              /\ docs = << >>
              /\ context = << >>
              /\ result.sources = {}
              /\ result.context_quality = "POOR"
              /\ result.completeness_score = 0
              /\ result.specificity_score = 0

\* an evaluation judges the context just retrieved, and from generation on
\* the passages, the context and the evaluation stay as the last level left
\* them
LastRetrievalIsKept ==
    /\ (pc \in {"evaluate_primary", "evaluate_secondary", "evaluate_tertiary",
                "evaluate_quaternary"} /\ pc' # pc) =>
          docs' = docs /\ context' = context
    /\ (pc \in {"generate", "validate_output", "assemble"} /\ pc' # pc) =>
          docs' = docs /\ context' = context /\ evaluation' = evaluation

\* C35: on the full path the context given to generation and the result's
\* context_quality, completeness and specificity scores and sources all come
\* from the last strategy attempted: the passages and the evaluation of an
\* earlier level are not used, also when the last level found nothing.
C35_ResultComesFromLastRetrieval ==
    []ResultFromLastRetrieval /\ [][LastRetrievalIsKept]_vars

\* PRIMARY found a context, the QUATERNARY strategy failed, and the
\* result has no sources and the tier POOR
C35_Witness ==
    /\ ReturnsFromFullPath
    /\ vectorstore
    /\ LastLevelAttempted = "QUATERNARY"
    /\ StrategyFailedAt("QUATERNARY")
    /\ Invoked("evaluator", "PRIMARY")
    /\ result.sources = {}
    /\ result.context_quality = "POOR"

\* the step that follows an evaluation step which asks for correction
NextStrategy(step) ==
    CASE step = "evaluate_primary" -> "retrieve_secondary"
      [] step = "evaluate_secondary" -> "refine_query"
      [] step = "evaluate_tertiary" -> "retrieve_quaternary"
      [] OTHER -> "generate"

\* the evaluator model was called and the evaluation is the defaulted one
EvaluationDefaulted(current) ==
    current # NoEvaluation /\ current.reasoning = "Evaluation parsing failed"

\* an evaluation step whose evaluator call failed yields the tier FAIR with
\* needs_correction true and goes on to the next strategy
FailedEvaluationEscalates ==
    (pc \in {"evaluate_primary", "evaluate_secondary", "evaluate_tertiary",
             "evaluate_quaternary"}
        /\ pc' # pc /\ pc' # "raised" /\ EvaluationDefaulted(evaluation')) =>
            /\ evaluation'.relevance_score = 50
            /\ evaluation'.completeness_score = 50
            /\ evaluation'.clarity_score = 50
            /\ evaluation'.quality_level = "FAIR"
            /\ evaluation'.needs_correction
            /\ pc' = NextStrategy(pc)

\* the evaluator model was called at each of the four levels
EvaluatorCalledAtEveryLevel ==
    \A level \in {"PRIMARY", "SECONDARY", "TERTIARY", "QUATERNARY"} :
        Invoked("evaluator", level)

\* when the evaluator failed at every level the four strategies have run and
\* the result is QUATERNARY, corrected, FAIR, Medium
AllFailedEndsAtQuaternary ==
    (Returns /\ EvaluatorCalledAtEveryLevel /\ EvaluationDefaulted(evaluation)) =>
        /\ LevelsRetrieved = {"PRIMARY", "SECONDARY", "TERTIARY", "QUATERNARY"}
        /\ \A level \in {"PRIMARY", "SECONDARY", "TERTIARY", "QUATERNARY"} :
              EvaluatedAs(level, "needs_correction")
        /\ result.retrieval_level = "QUATERNARY"
        /\ result.was_corrected
        /\ result.context_quality = "FAIR"
        /\ result.confidence = "Medium"

\* C36: a failed evaluator call on a context that is not blank gives the
\* defaulted evaluation, tier FAIR with needs_correction true, so that the
\* next strategy is attempted; when the evaluator fails at every level
\* query() runs the four strategies and returns level QUATERNARY,
\* was_corrected true, quality FAIR and the Medium confidence label.
C36_EvaluatorFailureEscalates ==
    []AllFailedEndsAtQuaternary /\ [][FailedEvaluationEscalates]_vars

\* the evaluator failed at each of the four levels and query() has returned
C36_Witness ==
    /\ Returns
    /\ EvaluatorCalledAtEveryLevel
    /\ EvaluationDefaulted(evaluation)
    /\ result.retrieval_level = "QUATERNARY"
    /\ result.confidence = "Medium"

\* the generated answer is longer than the maximum response length
AnswerTooLong == OutputValidated /\ Len(GeneratedAnswer) > MAX_RESPONSE_LENGTH

\* C37: a generated answer longer than the maximum response length gets a
\* WARNING verdict that does not admit it, and the RAGResponse returned has
\* the fixed replacement text as its answer, neither the generated answer nor
\* its truncation, and guardrail_passed false.
C37_OverLongAnswerNeverReturned ==
    (Returns /\ AnswerTooLong) =>
        /\ output_check.safety_level = "WARNING"
        /\ ~output_check.is_safe
        /\ output_check.sanitized_text =
              Truncate(GeneratedAnswer, MAX_RESPONSE_LENGTH) \o <<"...">>
        /\ result.answer = DifferentResponse
        /\ result.answer # GeneratedAnswer
        /\ result.answer # output_check.sanitized_text
        /\ ~IsPrefixOf(Truncate(GeneratedAnswer, MAX_RESPONSE_LENGTH), result.answer)
        /\ result.guardrail_passed = FALSE

\* an answer of seven tokens, one over the limit, was generated and the
\* result carries the replacement text
C37_Witness ==
    /\ Returns
    /\ AnswerTooLong
    /\ Len(GeneratedAnswer) = MAX_RESPONSE_LENGTH + 1
    /\ result.guardrail_passed = FALSE
    /\ result.answer = DifferentResponse
    /\ result.retrieval_level = "PRIMARY"

\* the sum of the per-category counts
SumOfCounts(counts) ==
    LET RECURSIVE Total(_)
        Total(keys) ==
            IF keys = {} THEN 0
            ELSE LET k == CHOOSE x \in keys : TRUE
                 IN counts[k] + Total(keys \ {k})
    IN Total(DOMAIN counts)

\* C38: after any sequence of validate_input, validate_output and
\* reset_metrics calls, safe_queries + blocked_queries is at most
\* total_queries, blocked_queries is the sum of the per-category counts, the
\* rejection log has at most blocked_queries entries, and warning_queries
\* is 0.
C38_MetricsAreConsistent ==
    /\ metrics.safe_queries + metrics.blocked_queries <= metrics.total_queries
    /\ metrics.blocked_queries = SumOfCounts(metrics.category_counts)
    /\ Len(metrics.recent_blocks) <= metrics.blocked_queries
    /\ metrics.warning_queries = 0

\* the metrics were reset and an empty query was then rejected: it counts in
\* total_queries only
C38_Witness ==
    /\ Len(calls) = 2
    /\ calls[1].op = "reset_metrics"
    /\ calls[2].op = "validate_input"
    /\ calls[2].out = "BLOCKED"
    /\ IsBlank(calls[2].arg)
    /\ metrics.total_queries = 1
    /\ metrics.safe_queries + metrics.blocked_queries = 0
    /\ metrics.recent_blocks = << >>

\* a query was rejected by the Content Filter and the metrics were reset
C38_WitnessResetAfterRejection ==
    /\ Len(calls) = 2
    /\ calls[1].op = "validate_input"
    /\ calls[1].out = "BLOCKED"
    /\ calls[1].arg = <<"steal", "answers">>
    /\ calls[2].op = "reset_metrics"
    /\ metrics.total_queries = 0
    /\ metrics.recent_blocks = << >>

\* a query was rejected by the Content Filter after an over-length one
C38_WitnessLogged ==
    /\ metrics.total_queries = 2
    /\ metrics.blocked_queries = 1
    /\ metrics.safe_queries = 0
    /\ Len(metrics.recent_blocks) = 1

\* is_safe, the level SAFE and the absence of a category go together
VerdictWellFormed(verdict) ==
    /\ verdict.is_safe \in BOOLEAN
    /\ verdict.is_safe <=> verdict.safety_level = "SAFE"
    /\ verdict.is_safe <=> verdict.blocked_category = NoCategory
    /\ ~verdict.is_safe => verdict.blocked_category \in ContentCategoryValues

\* C39: every verdict of validate_input and of validate_output has is_safe
\* true exactly when its level is SAFE and exactly when it has no category;
\* validate_input returns the levels SAFE and BLOCKED only, validate_output
\* SAFE, WARNING and BLOCKED only; no verdict has the level DANGEROUS.
C39_VerdictsAreWellFormed ==
    /\ InputValidated =>
          /\ VerdictWellFormed(input_check)
          /\ input_check.safety_level \in {"SAFE", "BLOCKED"}
    /\ OutputValidated =>
          /\ VerdictWellFormed(output_check)
          /\ output_check.safety_level \in {"SAFE", "WARNING", "BLOCKED"}

\* validate_output has returned a WARNING verdict after validate_input
\* rejected an empty query
C39_Witness ==
    /\ Len(calls) = 2
    /\ calls[1].op = "validate_input"
    /\ calls[1].out = "BLOCKED"
    /\ IsBlank(calls[1].arg)
    /\ OutputValidated
    /\ output_check.safety_level = "WARNING"
    /\ output_check.blocked_category = "off_topic"

\* validate_input has admitted a query
C39_WitnessAdmitted ==
    /\ InputValidated
    /\ input_check.is_safe
    /\ input_check.safety_level = "SAFE"
    /\ input_check.blocked_category = NoCategory

====
